---- MODULE Spec2Model ----
(***************************************************************************)
(* A model of the pm_team run pipeline: the orchestrator with its event    *)
(* bus, audit log and metrics, the sprint planner's plan()/                *)
(* refine_for_blocker(), and the plan mutations that work on the           *)
(* persisted plan.json of a run directory.                                 *)
(*                                                                         *)
(* Text is modelled as a sequence of one-character strings, so that the    *)
(* slices the code takes (initiative[:30], blocker[:40]) and the           *)
(* truthiness tests (if blocker:) are computed as the code computes them.  *)
(* An Optional value is a sequence of length 0 (None) or 1.                *)
(***************************************************************************)
EXTENDS Integers, Sequences, FiniteSets, TLC

VARIABLES
    orch,       \* orchestrator instances: position in run(), plan, metrics, bus
    audit,      \* the audit_log.jsonl the instances append to (a sequence of lines)
    logs,       \* PM_TEAM_AUDIT_MAX_BYTES, the rotated audit files, the latest log()
    now,        \* the wall clock, in seconds
    fs,         \* run directories of the project: name -> (file name -> content)
    meta,       \* project.json of the project, None while it does not exist
    pers,       \* persist_run: the call in progress and the results persisted
    resp,       \* what the last call on the stored state returned or raised
    outputs,    \* outputs/: project slug -> project.json and run directories
    threads     \* calls on the stored state in progress side by side, per thread

storeVars == <<fs, meta, pers, resp, outputs, threads>>
vars == <<orch, audit, logs, now, fs, meta, pers, resp, outputs, threads>>

----------------------------------------------------------------------------
(* Bounds of the model *)

MaxRuns == 2        \* run() calls started, over all orchestrator instances
MaxListLen == 2     \* length of the blockers list passed to run()
MaxOps == 3         \* calls that mutate a persisted plan
MaxOrderLen == 2    \* length of the ordered_ids passed to reprioritize_tasks

Orchs == {1, 2}

----------------------------------------------------------------------------
(* Generic helpers *)

None == <<>>
Some(x) == <<x>>
IsSome(o) == Len(o) = 1
Get(o) == o[1]

Min(a, b) == IF a <= b THEN a ELSE b

\* s[:n]
Take(s, n) == SubSeq(s, 1, Min(n, Len(s)))

RECURSIVE SumSeq(_)
SumSeq(s) == IF s = <<>> THEN 0 ELSE s[1] + SumSeq(Tail(s))

SeqMap(F(_), s) == [i \in 1..Len(s) |-> F(s[i])]

SeqsUpTo(S, n) == UNION {[1..k -> S] : k \in 0..n}

----------------------------------------------------------------------------
(* Input domains *)

\* Characters of the texts: letters, upper case, blank, punctuation
Chars == {"a", "b", "A", " ", "!"}
Initiatives == {<<"a">>, <<"A", "!">>, <<" ", "b">>}
BlockerTexts == {<<>>, <<"a">>, <<"b">>}

\* blocker: Optional[str]
BlockerArgs == {None} \cup {Some(b) : b \in BlockerTexts}
\* blockers: Optional[List[str]]
BlockersArgs == {None} \cup {Some(l) : l \in SeqsUpTo(BlockerTexts, MaxListLen)}

\* The smaller input sets of the specifications with several run() calls
FewBlockerArgs == {None, Some(<<"a">>)}
FewBlockersArgs == {None, Some(<< <<"b">> >>), Some(<< <<"b">>, <<"a">> >>)}

----------------------------------------------------------------------------
(* sprint_planner.py *)

TitleInitiativeLen == 30
SprintGoalLen == 60
BlockerTitleLen == 40
VelocityAssumption == 30

base_tasks == <<
    [name |-> "Requirements Clarification", type |-> "analysis"],
    [name |-> "Architecture Draft",         type |-> "design"],
    [name |-> "Data Model Design",          type |-> "design"],
    [name |-> "Implementation",             type |-> "feature"],
    [name |-> "Testing & QA",               type |-> "quality"],
    [name |-> "Deployment Prep",            type |-> "ops"] >>

risk_map == [low |-> 1, medium |-> 3, high |-> 6]

\* f"T{i}" / f"M{n}"
TaskId(letter, n) == <<letter, n>>

\* One base task, as built in the loop body of SprintPlanner.plan.
\* risk_probability is in percent, risk_exposure in tenths, wsjf in hundredths.
BaseTask(i, initiative) ==
    LET t        == base_tasks[i].name
        risk     == IF i \in {4, 5} THEN "medium" ELSE "low"
        estimate == IF t = "Implementation" THEN 8 ELSE 3
        prob     == IF risk = "low" THEN 20 ELSE 40
        impact   == IF risk = "low" THEN 2 ELSE 4
    IN  [ id               |-> TaskId("T", i),
          title            |-> <<t, Take(initiative, TitleInitiativeLen)>>,
          type             |-> base_tasks[i].type,
          estimate_points  |-> estimate,
          risk             |-> risk,
          risk_score       |-> risk_map[risk] * estimate,
          risk_probability |-> prob,
          risk_impact      |-> impact,
          risk_exposure    |-> (prob * impact * estimate) \div 10,
          wsjf             |-> ((8 + 5 + 3) * 100 + (estimate \div 2)) \div estimate,
          priority         |-> i,
          acceptance       |-> "TBD",
          depends_on       |-> IF i > 1 THEN <<TaskId("T", i - 1)>> ELSE <<>>,
          status           |-> None ]

RiskScores(tasks) == SeqMap(LAMBDA t : t.risk_score, tasks)
EstimatePoints(tasks) == SeqMap(LAMBDA t : t.estimate_points, tasks)

\* SprintPlanner.plan
plan(initiative, at) ==
    LET tasks == [i \in 1..Len(base_tasks) |-> BaseTask(i, initiative)]
    IN  [ initiative           |-> initiative,
          generated_at         |-> at,
          updated_at           |-> None,
          sprint_goal          |-> Take(initiative, SprintGoalLen),
          velocity_assumption  |-> VelocityAssumption,
          tasks                |-> tasks,
          blockers             |-> <<>>,
          aggregate_risk_score |-> SumSeq(RiskScores(tasks)) ]

\* mitigation_task of refine_for_blocker rated medium with the score of high
MitigationTask_medium(n, blocker) ==
    [ id               |-> TaskId("M", n),
      title            |-> <<"Mitigate blocker", Take(blocker, BlockerTitleLen)>>,
      type             |-> "mitigation",
      estimate_points  |-> 2,
      risk             |-> "medium",
      risk_score       |-> 2 * 6,
      risk_probability |-> 50,
      risk_impact      |-> 5,
      risk_exposure    |-> (50 * 5 * 2) \div 10,
      wsjf             |-> ((5 + 5 + 5) * 100) \div 2,
      priority         |-> n,
      acceptance       |-> "Mitigation effective",
      depends_on       |-> <<>>,
      status           |-> None ]

\* mitigation_task of refine_for_blocker, for a plan of n - 1 tasks.
MitigationTask(n, blocker) ==
    [ id               |-> TaskId("M", n),
      title            |-> <<"Mitigate blocker", Take(blocker, BlockerTitleLen)>>,
      type             |-> "mitigation",
      estimate_points  |-> 2,
      risk             |-> "high",
      risk_score       |-> 2 * 6,
      risk_probability |-> 50,
      risk_impact      |-> 5,
      risk_exposure    |-> (50 * 5 * 2) \div 10,
      wsjf             |-> ((5 + 5 + 5) * 100) \div 2,
      priority         |-> n,
      acceptance       |-> "Mitigation effective",
      depends_on       |-> <<>>,
      status           |-> None ]

\* refine_for_blocker without the recomputation of aggregate_risk_score
refine_for_blocker_stale(p, blocker) ==
    [p EXCEPT !.tasks = Append(@, MitigationTask(Len(p.tasks) + 1, blocker)),
              !.blockers = Append(@, blocker)]

\* refine_for_blocker that puts the mitigation task in front of the list
refine_for_blocker_in_front(p, blocker) ==
    LET tasks == <<MitigationTask(Len(p.tasks) + 1, blocker)>> \o p.tasks
    IN  [p EXCEPT !.tasks = tasks,
                  !.blockers = Append(p.blockers, blocker),
                  !.aggregate_risk_score = SumSeq(RiskScores(tasks))]

\* SprintPlanner.refine_for_blocker
refine_for_blocker(p, blocker) ==
    LET tasks == Append(p.tasks, MitigationTask(Len(p.tasks) + 1, blocker))
    IN  [p EXCEPT !.tasks = tasks,
                  !.blockers = Append(p.blockers, blocker),
                  !.aggregate_risk_score = SumSeq(RiskScores(tasks))]


----------------------------------------------------------------------------
(* release_coordinator.py, stakeholder_communicator.py *)

SecondsPerDay == 86400
ReleaseNotesMax == 6

\* datetime.date() of a clock value
Date(t) == t \div SecondsPerDay

\* ReleaseCoordinator.draft_release
draft_release(p, at) ==
    LET start == at + 3 * SecondsPerDay
        notes == SeqMap(LAMBDA t : <<t.id, t.title>>, p.tasks)
    IN  [ generated_at   |-> at,
          window         |-> <<Date(start), Date(start + 2 * SecondsPerDay)>>,
          next_milestone |-> Date(start + 7 * SecondsPerDay),
          notes          |-> Take(notes, ReleaseNotesMax),
          rollback_stub  |-> "If critical failure" ]

\* StakeholderCommunicator.summarize: the parts the message is formatted from
summarize(p, release_summary) ==
    LET risks == SelectSeq(p.tasks, LAMBDA t : t.risk # "low")
    IN  [ initiative     |-> p.initiative,
          total_tasks    |-> Len(p.tasks),
          total_points   |-> SumSeq(EstimatePoints(p.tasks)),
          window         |-> release_summary.window,
          risks          |-> SeqMap(LAMBDA t : <<t.id, t.risk>>, risks),
          next_milestone |-> release_summary.next_milestone ]

\* len(summary): the message's length grows with its variable parts
SummaryLen(m) == Len(m.initiative) + Len(m.risks)

----------------------------------------------------------------------------
(* orchestration.py: EventBus, AuditLogger, MetricsAccumulator *)

EventNames == {"PLAN_CREATED", "BLOCKER_ADDED", "RELEASE_DRAFTED", "STAKEHOLDER_SUMMARY"}

\* Handlers a bus can hold: the audit mirroring lambdas registered by
\* PMTeamOrchestrator.__init__ and a subscriber added by the embedding program.
Handlers == {"audit", "ext"}

\* EventBus.__init__ followed by the four subscribe calls of PMTeamOrchestrator.__init__
EventBusInit ==
    [ subs    |-> [e \in EventNames |-> <<"audit">>],
      history |-> <<>>,
      invoked |-> <<>> ]

\* EventBus.subscribe.  invoked is not a field of the class: it records, for
\* every emit, the handlers the loop called, in the order of the calls, and
\* whether each one raised.
subscribe(bus, event, handler) ==
    [bus EXCEPT !.subs[event] = Append(@, handler)]

\* The data the audit mirroring lambda of an event logs for a payload
AuditData(event, payload) ==
    CASE event = "PLAN_CREATED"        -> [task_count |-> Len(payload.tasks)]
      [] event = "BLOCKER_ADDED"       -> [blocker |-> payload.blocker]
      [] event = "RELEASE_DRAFTED"     -> [window |-> payload.window]
      [] event = "STAKEHOLDER_SUMMARY" -> [length |-> SummaryLen(payload.summary)]

\* log() writing its line in front of the file
log_in_front(au, event, data, at, by) ==
    <<[event |-> event, at |-> at, by |-> by] @@ data>> \o au

\* AuditLogger.log, lines 61-63: one line appended to the primary file.
\* by = <<instance, call number>> names the run() call that wrote the line; it
\* is not part of the line.  Line 64, _maybe_rotate, follows in AuditStep.
log(au, event, data, at, by) ==
    Append(au, [event |-> event, at |-> at, by |-> by] @@ data)

\* The size of a line of the audit file, in units: a fixed part and one unit
\* per character of the text the line carries
LineBytes(l) ==
    2 + (IF l.event = "BLOCKER_ADDED" THEN Len(l.blocker) ELSE 0)
      + (IF l.event = "RUN_COMPLETED" THEN Len(l.initiative) ELSE 0)

\* os.path.getsize of the primary file
getsize(au) == SumSeq([i \in 1..Len(au) |-> LineBytes(au[i])])

\* PM_TEAM_AUDIT_MAX_BYTES: unset (None), or a text: empty, not a number
\* (<<"x">>), or the digits of n (<<"int", n>>)
IsIntText(text) == Len(text) = 2 /\ text[1] = "int"

\* The audit files before any log() call: no environment variable, no rotated
\* file.  last describes the latest log() call: the size it left and the way
\* _maybe_rotate went; n counts the log() calls that wrote their line.
LogsInit ==
    [ max_bytes |-> None, rotated |-> [ts \in {} |-> <<>>], n |-> 0,
      last |-> [step |-> "none", size |-> 0] ]

\* The faults the file system can answer _maybe_rotate with
RotFaults == {"none", "getsize", "replace"}

\* _maybe_rotate that rotates a file of exactly the threshold too
_maybe_rotate_at_limit(au, lg, at, fault) ==
    LET size == getsize(au)
    IN  IF lg.max_bytes = None \/ lg.max_bytes = Some(<<>>)
        THEN [primary |-> au, rotated |-> lg.rotated, step |-> "unset", raised |-> FALSE]
        ELSE IF ~IsIntText(Get(lg.max_bytes))
        THEN [primary |-> au, rotated |-> lg.rotated, step |-> "not_int", raised |-> FALSE]
        ELSE IF fault = "getsize"
        THEN [primary |-> au, rotated |-> lg.rotated, step |-> "getsize_failed", raised |-> FALSE]
        ELSE IF size < Get(lg.max_bytes)[2]
        THEN [primary |-> au, rotated |-> lg.rotated, step |-> "small", raised |-> FALSE]
        ELSE IF fault = "replace"
        THEN [primary |-> au, rotated |-> lg.rotated, step |-> "replace_failed", raised |-> FALSE]
        ELSE [primary |-> <<>>, rotated |-> (at :> au) @@ lg.rotated, step |-> "replaced",
              raised |-> FALSE]

\* _maybe_rotate that lets a failing os.replace reach the caller of log()
_maybe_rotate_raising(au, lg, at, fault) ==
    LET size == getsize(au)
    IN  IF lg.max_bytes = None \/ lg.max_bytes = Some(<<>>)
        THEN [primary |-> au, rotated |-> lg.rotated, step |-> "unset", raised |-> FALSE]
        ELSE IF ~IsIntText(Get(lg.max_bytes))
        THEN [primary |-> au, rotated |-> lg.rotated, step |-> "not_int", raised |-> FALSE]
        ELSE IF fault = "getsize"
        THEN [primary |-> au, rotated |-> lg.rotated, step |-> "getsize_failed", raised |-> FALSE]
        ELSE IF size <= Get(lg.max_bytes)[2]
        THEN [primary |-> au, rotated |-> lg.rotated, step |-> "small", raised |-> FALSE]
        ELSE IF fault = "replace"
        THEN [primary |-> au, rotated |-> lg.rotated, step |-> "replace_failed", raised |-> TRUE]
        ELSE [primary |-> <<>>, rotated |-> (at :> au) @@ lg.rotated, step |-> "replaced",
              raised |-> FALSE]

\* AuditLogger._maybe_rotate on the primary file au just written.  The rotated
\* file is named by the second; os.replace writes over a file of that name.
\* raised: an exception leaves _maybe_rotate (none does).
_maybe_rotate(au, lg, at, fault) ==
    LET size == getsize(au)
    IN  IF lg.max_bytes = None \/ lg.max_bytes = Some(<<>>)
        THEN [primary |-> au, rotated |-> lg.rotated, step |-> "unset", raised |-> FALSE]
        ELSE IF ~IsIntText(Get(lg.max_bytes))
        THEN [primary |-> au, rotated |-> lg.rotated, step |-> "not_int", raised |-> FALSE]
        ELSE IF fault = "getsize"
        THEN [primary |-> au, rotated |-> lg.rotated, step |-> "getsize_failed", raised |-> FALSE]
        ELSE IF size <= Get(lg.max_bytes)[2]
        THEN [primary |-> au, rotated |-> lg.rotated, step |-> "small", raised |-> FALSE]
        ELSE IF fault = "replace"
        THEN [primary |-> au, rotated |-> lg.rotated, step |-> "replace_failed", raised |-> FALSE]
        ELSE [primary |-> <<>>, rotated |-> (at :> au) @@ lg.rotated, step |-> "replaced",
              raised |-> FALSE]

\* The handler loop with a failing handler skipped instead of propagated
RECURSIVE Dispatch_swallow(_, _, _, _, _, _, _, _)
Dispatch_swallow(hs, j, failAt, au, event, payload, at, by) ==
    IF j > Len(hs) THEN [audit |-> au, raised |-> FALSE, invoked |-> <<>>]
    ELSE LET rest == Dispatch_swallow(hs, j + 1, failAt,
                         IF hs[j] = "audit" /\ j # failAt
                         THEN log(au, event, AuditData(event, payload), at, by)
                         ELSE au,
                         event, payload, at, by)
         IN  [rest EXCEPT !.invoked = <<[handler |-> hs[j], raised |-> j = failAt]>> \o @]

\* The handler loop going through the handlers from the last subscribed to the
\* first; failAt counts the calls
RECURSIVE Dispatch_reversed(_, _, _, _, _, _, _, _)
Dispatch_reversed(hs, j, failAt, au, event, payload, at, by) ==
    LET h == hs[Len(hs) + 1 - j]
    IN  IF j > Len(hs) THEN [audit |-> au, raised |-> FALSE, invoked |-> <<>>]
        ELSE IF j = failAt
        THEN [audit |-> au, raised |-> TRUE, invoked |-> <<[handler |-> h, raised |-> TRUE]>>]
        ELSE LET rest == Dispatch_reversed(hs, j + 1, failAt,
                             IF h = "audit" THEN log(au, event, AuditData(event, payload), at, by)
                                            ELSE au,
                             event, payload, at, by)
             IN  [rest EXCEPT !.invoked = <<[handler |-> h, raised |-> FALSE]>> \o @]

\* The handler loop of EventBus.emit.  failAt = j > 0: the j-th handler raises
\* (for the audit lambda: AuditLogger.log raises on open, nothing is written);
\* the handlers after it are not invoked.
RECURSIVE Dispatch(_, _, _, _, _, _, _, _)
Dispatch(hs, j, failAt, au, event, payload, at, by) ==
    IF j > Len(hs) THEN [audit |-> au, raised |-> FALSE, invoked |-> <<>>]
    ELSE IF j = failAt
    THEN [audit |-> au, raised |-> TRUE, invoked |-> <<[handler |-> hs[j], raised |-> TRUE]>>]
    ELSE LET rest == Dispatch(hs, j + 1, failAt,
                         IF hs[j] = "audit" THEN log(au, event, AuditData(event, payload), at, by)
                                            ELSE au,
                         event, payload, at, by)
         IN  [rest EXCEPT !.invoked = <<[handler |-> hs[j], raised |-> FALSE]>> \o @]

\* EventBus.emit
emit(bus, au, event, payload, at, by, failAt) ==
    LET record == [event |-> event, timestamp |-> at, payload |-> payload]
        d      == Dispatch(bus.subs[event], 1, failAt, au, event, payload, at, by)
    IN  [ bus    |-> [bus EXCEPT !.history = Append(@, record),
                                 !.invoked = Append(@, d.invoked)],
          audit  |-> d.audit,
          raised |-> d.raised ]

\* MetricsAccumulator.__init__
MetricsInit == [counters |-> [plans_created |-> 0, blockers_recorded |-> 0], last_points |-> 0]

\* incr counting every key under blockers_recorded
incr_one_counter(m, key) == [m EXCEPT !.counters["blockers_recorded"] = @ + 1]

\* MetricsAccumulator.incr (amount = 1)
incr(m, key) == [m EXCEPT !.counters[key] = @ + 1]

\* MetricsAccumulator.snapshot
snapshot(m) == m.counters @@ [last_points |-> m.last_points]


----------------------------------------------------------------------------
(* orchestration.py: PMTeamOrchestrator *)

\* PMTeamOrchestrator.__init__.  pc is the position inside run(); plan, pending,
\* total_points, release_view and stakeholder_summary are run()'s locals; calls
\* records every run() call of the instance with what it returned.
OrchInit ==
    [ pc                  |-> "idle",
      bus                 |-> EventBusInit,
      metrics             |-> MetricsInit,
      initiative          |-> None,
      plan                |-> None,
      pending             |-> <<>>,
      total_points        |-> 0,
      release_view        |-> None,
      stakeholder_summary |-> None,
      calls               |-> <<>> ]

\* collected_blockers with the list taken before the single blocker
collected_blockers_list_first(blocker, blockers) ==
    (IF IsSome(blockers) /\ Get(blockers) # <<>> THEN Get(blockers) ELSE <<>>)
    \o (IF IsSome(blocker) /\ Get(blocker) # <<>> THEN <<Get(blocker)>> ELSE <<>>)

\* collected_blockers of run(): lines 99-103
collected_blockers(blocker, blockers) ==
    (IF IsSome(blocker) /\ Get(blocker) # <<>> THEN <<Get(blocker)>> ELSE <<>>)
    \o (IF IsSome(blockers) /\ Get(blockers) # <<>> THEN Get(blockers) ELSE <<>>)

RunsStarted == SumSeq([i \in 1..Cardinality(Orchs) |-> Len(orch[i].calls)])

\* The run() call an instance is executing: <<instance, call number>>
CurrentRun(o) == <<o, Len(orch[o].calls)>>

\* Which step of a run may raise: -1 the generator step, j > 0 the j-th handler
\* of the event the step emits, 0 nothing.
FailChoices(o, event) == -1 .. Len(orch[o].bus.subs[event])

\* run() left by an exception: the locals are gone, the caller gets no result
Raised(rec) ==
    [rec EXCEPT !.pc = "idle", !.initiative = None, !.plan = None, !.pending = <<>>,
                !.total_points = 0, !.release_view = None, !.stakeholder_summary = None,
                !.calls[Len(rec.calls)].outcome = "raised"]

\* run() left by return result
Returned(rec, result) ==
    [rec EXCEPT !.pc = "idle", !.initiative = None, !.plan = None, !.pending = <<>>,
                !.total_points = 0, !.release_view = None, !.stakeholder_summary = None,
                !.calls[Len(rec.calls)].outcome = "returned",
                !.calls[Len(rec.calls)].result = Some(result)]

NewCall(initiative, blocker, blockers) ==
    [ initiative |-> initiative, blocker |-> blocker, blockers |-> blockers,
      outcome |-> "running", result |-> None ]

\* The end of a step of run() that emitted an event or logged RUN_COMPLETED:
\* written is the primary file after the handlers; if AuditLogger.log wrote a
\* line, its _maybe_rotate follows the write.  The instance goes on as recOk,
\* or as recRaised if a handler or the logger raised.
AuditStep(o, recRaised, recOk, written, handlerRaised) ==
    IF written = audit
    THEN /\ orch' = [orch EXCEPT ![o] = IF handlerRaised THEN recRaised ELSE recOk]
         /\ UNCHANGED <<audit, logs>>
    ELSE \E fault \in RotFaults :
            LET r == _maybe_rotate(written, logs, now, fault)
            IN  /\ orch' = [orch EXCEPT ![o] = IF handlerRaised \/ r.raised
                                                THEN recRaised ELSE recOk]
                /\ audit' = r.primary
                /\ logs' = [logs EXCEPT !.rotated = r.rotated, !.n = @ + 1,
                                        !.last = [step |-> r.step, size |-> getsize(written)]]

\* The program sets PM_TEAM_AUDIT_MAX_BYTES before its first run()
EnvValues == {Some(<<>>), Some(<<"x">>), Some(<<"int", 0>>), Some(<<"int", 4>>)}
SetEnv(v) ==
    /\ logs.max_bytes = None
    /\ audit = <<>>
    /\ \A o \in Orchs : orch[o].calls = <<>>
    /\ logs' = [logs EXCEPT !.max_bytes = v]
    /\ UNCHANGED <<orch, audit, now, storeVars>>

\* The embedding program adds a subscriber of its own to an instance's bus.
Subscribe(o, event) ==
    /\ orch[o].pc = "idle"
    /\ orch[o].calls = <<>>
    /\ \A e \in EventNames : orch[o].bus.subs[e] = <<"audit">>
    /\ orch' = [orch EXCEPT ![o].bus = subscribe(@, event, "ext")]
    /\ UNCHANGED <<audit, logs, now, storeVars>>

\* run(), lines 94-103: plan, metrics, PLAN_CREATED, collected_blockers
RunStart(o, initiative, blocker, blockers, fail) ==
    /\ orch[o].pc = "idle"
    /\ RunsStarted < MaxRuns
    /\ fail \in FailChoices(o, "PLAN_CREATED")
    /\ LET rec0 == [orch[o] EXCEPT !.calls = Append(@, NewCall(initiative, blocker, blockers))]
           by   == <<o, Len(rec0.calls)>>
           p    == plan(initiative, now)
           m1   == incr(rec0.metrics, "plans_created")
           tp   == SumSeq(EstimatePoints(p.tasks))
           m2   == [m1 EXCEPT !.last_points = tp]
           em   == emit(rec0.bus, audit, "PLAN_CREATED",
                        [initiative |-> initiative, tasks |-> p.tasks], now, by, fail)
           rec1 == [rec0 EXCEPT !.metrics = m2, !.bus = em.bus, !.initiative = Some(initiative),
                                !.plan = Some(p), !.total_points = tp,
                                !.pending = collected_blockers(blocker, blockers),
                                !.pc = "planned"]
       IN  IF fail = -1
           THEN /\ orch' = [orch EXCEPT ![o] = Raised(rec0)]
                /\ UNCHANGED <<audit, logs>>
           ELSE AuditStep(o, Raised(rec1), rec1, em.audit, em.raised)
    /\ UNCHANGED <<now, storeVars>>

\* run(), lines 104-107: one iteration of the blocker loop
RunRefine(o, fail) ==
    /\ orch[o].pc = "planned"
    /\ orch[o].pending # <<>>
    /\ fail \in FailChoices(o, "BLOCKER_ADDED")
    /\ LET rec0 == orch[o]
           b    == Head(rec0.pending)
           p    == refine_for_blocker(Get(rec0.plan), b)
           m1   == incr(rec0.metrics, "blockers_recorded")
           em   == emit(rec0.bus, audit, "BLOCKER_ADDED", [blocker |-> b], now,
                        CurrentRun(o), fail)
           rec1 == [rec0 EXCEPT !.plan = Some(p), !.metrics = m1, !.bus = em.bus,
                                !.pending = Tail(@)]
       IN  IF fail = -1
           THEN /\ orch' = [orch EXCEPT ![o] = Raised(rec0)]
                /\ UNCHANGED <<audit, logs>>
           ELSE AuditStep(o, Raised(rec1), rec1, em.audit, em.raised)
    /\ UNCHANGED <<now, storeVars>>

\* run(), lines 108-109: draft_release, RELEASE_DRAFTED
RunRelease(o, fail) ==
    /\ orch[o].pc = "planned"
    /\ orch[o].pending = <<>>
    /\ fail \in FailChoices(o, "RELEASE_DRAFTED")
    /\ LET rec0 == orch[o]
           rv   == draft_release(Get(rec0.plan), now)
           em   == emit(rec0.bus, audit, "RELEASE_DRAFTED", rv, now, CurrentRun(o), fail)
           rec1 == [rec0 EXCEPT !.release_view = Some(rv), !.bus = em.bus, !.pc = "released"]
       IN  IF fail = -1
           THEN /\ orch' = [orch EXCEPT ![o] = Raised(rec0)]
                /\ UNCHANGED <<audit, logs>>
           ELSE AuditStep(o, Raised(rec1), rec1, em.audit, em.raised)
    /\ UNCHANGED <<now, storeVars>>

\* run(), lines 110-111: summarize, STAKEHOLDER_SUMMARY
RunSummarize(o, fail) ==
    /\ orch[o].pc = "released"
    /\ fail \in FailChoices(o, "STAKEHOLDER_SUMMARY")
    /\ LET rec0 == orch[o]
           sm   == summarize(Get(rec0.plan), Get(rec0.release_view))
           em   == emit(rec0.bus, audit, "STAKEHOLDER_SUMMARY", [summary |-> sm], now,
                        CurrentRun(o), fail)
           rec1 == [rec0 EXCEPT !.stakeholder_summary = Some(sm), !.bus = em.bus,
                                !.pc = "summarized"]
       IN  IF fail = -1
           THEN /\ orch' = [orch EXCEPT ![o] = Raised(rec0)]
                /\ UNCHANGED <<audit, logs>>
           ELSE AuditStep(o, Raised(rec1), rec1, em.audit, em.raised)
    /\ UNCHANGED <<now, storeVars>>

\* run()'s last step with RUN_COMPLETED written before the failure is raised
RunDone_log_then_raise(o, logFails) ==
    /\ orch[o].pc = "summarized"
    /\ LET rec0   == orch[o]
           p      == Get(rec0.plan)
           result == [ plan                 |-> p,
                       release              |-> Get(rec0.release_view),
                       stakeholder_summary  |-> Get(rec0.stakeholder_summary),
                       metrics              |-> snapshot(rec0.metrics),
                       aggregate_risk_score |-> p.aggregate_risk_score ]
       IN  AuditStep(o, Raised(rec0), IF logFails THEN Raised(rec0) ELSE Returned(rec0, result),
                     log(audit, "RUN_COMPLETED",
                         [initiative |-> Get(rec0.initiative),
                          points |-> rec0.total_points], now, CurrentRun(o)), FALSE)
    /\ UNCHANGED <<now, storeVars>>

\* run(), lines 112-120: the result, RUN_COMPLETED, return.  logFails: the
\* final AuditLogger.log raises and run() returns nothing.
RunDone(o, logFails) ==
    /\ orch[o].pc = "summarized"
    /\ LET rec0   == orch[o]
           p      == Get(rec0.plan)
           result == [ plan                 |-> p,
                       release              |-> Get(rec0.release_view),
                       stakeholder_summary  |-> Get(rec0.stakeholder_summary),
                       metrics              |-> snapshot(rec0.metrics),
                       aggregate_risk_score |-> p.aggregate_risk_score ]
       IN  IF logFails
           THEN /\ orch' = [orch EXCEPT ![o] = Raised(rec0)]
                /\ UNCHANGED <<audit, logs>>
           ELSE AuditStep(o, Raised(rec0), Returned(rec0, result),
                          log(audit, "RUN_COMPLETED",
                              [initiative |-> Get(rec0.initiative),
                               points |-> rec0.total_points], now, CurrentRun(o)), FALSE)
    /\ UNCHANGED <<now, storeVars>>

\* run() is synchronous: in a single-threaded program a call starts only when
\* no other call is in progress.
NoRunInProgress == \A o \in Orchs : orch[o].pc = "idle"

RunStartSeq(o, initiative, blocker, blockers, fail) ==
    /\ NoRunInProgress
    /\ RunStart(o, initiative, blocker, blockers, fail)

\* The first call of a fresh instance on a fresh audit file
RunFirst(o, initiative, blocker, blockers, fail) ==
    /\ orch[o].calls = <<>>
    /\ audit = <<>>
    /\ RunStart(o, initiative, blocker, blockers, fail)

----------------------------------------------------------------------------
(* output_writer.py *)

SlugMaxLen == 60

\* str.lower on one character
Lower(c) == CASE c = "A" -> "a" [] c = "B" -> "b" [] OTHER -> c

\* str.strip
RECURSIVE LStrip(_)
LStrip(s) == IF s # <<>> /\ Head(s) = " " THEN LStrip(Tail(s)) ELSE s
RECURSIVE RStrip(_)
RStrip(s) == IF s # <<>> /\ s[Len(s)] = " " THEN RStrip(SubSeq(s, 1, Len(s) - 1)) ELSE s
Strip(s) == RStrip(LStrip(s))

\* SANITIZE_RE keeps [a-z0-9_-]
SlugChars == {"a", "b", "_", "-"}

\* _slug(text, max_len=60)
_slug(text) ==
    LET lower   == SeqMap(LAMBDA c : IF Lower(c) = " " THEN "_" ELSE Lower(c), Strip(text))
        cleaned == SelectSeq(lower, LAMBDA c : c \in SlugChars)
    IN  IF Take(cleaned, SlugMaxLen) # <<>> THEN Take(cleaned, SlugMaxLen) ELSE <<"r", "u", "n">>

\* _timestamp(): the clock to the second
_timestamp(t) == t

\* Code points of the characters a directory name is made of
CharCode(c) ==
    CASE c = "-" -> 45 [] c = "_" -> 95 [] c = "a" -> 97 [] c = "b" -> 98
      [] c = "n" -> 110 [] c = "r" -> 114 [] c = "u" -> 117

RECURSIVE StrLess(_, _)
StrLess(s, t) ==
    IF t = <<>> THEN FALSE
    ELSE IF s = <<>> THEN TRUE
    ELSE IF s[1] # t[1] THEN CharCode(s[1]) < CharCode(t[1])
    ELSE StrLess(Tail(s), Tail(t))

\* Order of the names f"{timestamp}_{slug}" as strings: the timestamps have a
\* fixed width, so they compare as numbers
NameLess(a, b) == a[1] < b[1] \/ (a[1] = b[1] /\ StrLess(a[2], b[2]))

\* sorted(...) of a set of directory names
RECURSIVE SortedNames(_)
SortedNames(S) ==
    IF S = {} THEN <<>>
    ELSE LET m == CHOOSE x \in S : \A y \in S \ {x} : NameLess(x, y)
         IN  <<m>> \o SortedNames(S \ {m})

\* The file names of a run directory in sorted() order
SortedFileNames ==
    << "aggregate_risk.txt", "blockers.txt", "conversation.json", "manifest.json",
       "metrics.json", "plan.json", "release.json", "stakeholder_summary.txt" >>

\* a[:n] of Python, n possibly negative
PySlice(a, n) == IF n >= 0 THEN Take(a, n) ELSE Take(a, IF Len(a) + n > 0 THEN Len(a) + n ELSE 0)

Range(q) == {q[i] : i \in 1..Len(q)}

\* f with the files of g written over it
Overwrite(f, g) == g @@ f

\* A directory without files
EmptyDir == [files |-> <<>>, autogen |-> None]

HasFile(d, name) == name \in DOMAIN d.files

\* A failure of the filesystem while one directory is removed (lines 52-60):
\* at "unlink" the first unlink() raises and the directory keeps its content,
\* at "rmdir" the files are gone and the final rmdir() raises
NoFailure == None
RemovalFailures(names) == {Some([dir |-> d, at |-> a]) : d \in names, a \in {"unlink", "rmdir"}}

\* _prune_old_runs with the try around the loop: the first failure ends it
_prune_old_runs_aborting(dirs, keep, fail) ==
    LET run_dirs == SortedNames(DOMAIN dirs)
        excess   == Len(run_dirs) - keep
        visited  == Range(PySlice(run_dirs, excess))
        failed   == IF fail = None THEN {} ELSE visited \cap {Get(fail).dir}
        removed  == {n \in visited : \A f \in failed : NameLess(n, f)}
    IN  [dirs   |-> [n \in DOMAIN dirs \ removed |->
                       IF n \in failed /\ Get(fail).at = "rmdir" THEN EmptyDir ELSE dirs[n]],
         raised |-> failed # {}]

\* _prune_old_runs: the directories left, and whether an exception leaves the
\* function. The exception of one directory is swallowed inside the loop, the
\* loop goes on with the next directory.
_prune_old_runs(dirs, keep, fail) ==
    LET run_dirs == SortedNames(DOMAIN dirs)
        excess   == Len(run_dirs) - keep
        visited  == Range(PySlice(run_dirs, excess))
        failed   == IF fail = None THEN {} ELSE visited \cap {Get(fail).dir}
        removed  == visited \ failed
    IN  [dirs   |-> [n \in DOMAIN dirs \ removed |->
                       IF n \in failed /\ Get(fail).at = "rmdir" THEN EmptyDir ELSE dirs[n]],
         raised |-> FALSE]

\* projects.py: _slug(name), without a length limit, "default" for an empty slug
projects_slug(name) ==
    LET s == SelectSeq(SeqMap(LAMBDA c : IF Lower(c) = " " THEN "_" ELSE Lower(c), Strip(name)),
                       LAMBDA c : c \in SlugChars)
    IN  IF s # <<>> THEN s ELSE <<"d", "e", "f", "a", "u", "l", "t">>

\* projects.py: ensure_project's new metadata
NewMeta(name, at) == [name |-> name, slug |-> projects_slug(name), created_at |-> at, runs |-> 0]

\* projects.py: increment_run_counter
increment_run_counter(m, name, at) ==
    IF m = None THEN Some(NewMeta(name, at))
    ELSE Some([Get(m) EXCEPT !.runs = @ + 1])

\* The artifact files persist_run writes for a result (lines 72-91)
Artifacts(result) ==
    LET p == result.plan
    IN  [ n \in {"plan.json", "release.json", "metrics.json", "aggregate_risk.txt",
                 "stakeholder_summary.txt"}
            \cup (IF p.blockers # <<>> THEN {"blockers.txt"} ELSE {}) |->
          CASE n = "plan.json"               -> p
            [] n = "blockers.txt"            -> p.blockers
            [] n = "release.json"            -> result.release
            [] n = "metrics.json"            -> result.metrics
            [] n = "aggregate_risk.txt"      -> result.aggregate_risk_score
            [] n = "stakeholder_summary.txt" -> result.stakeholder_summary ]

\* The threads of the program that call into the stored state, and a thread
\* that is in no call
Threads == {1, 2}
Idle == [pc |-> "idle"]

\* A project directory that does not exist: no project.json, no run directory
NoProject == [meta |-> None, dirs |-> [rd \in {} |-> EmptyDir]]

ProjectName == <<"a">>
MaxRunsArgs == {None, Some(1)}

\* persist_run, lines 65-70: the run directory is named and created (exist_ok).
\* pers.created lists the run directories in the order of their creation.
PersistBegin(oj, max_runs) ==
    /\ pers.call = None
    /\ oj \notin pers.persisted
    /\ oj[2] <= Len(orch[oj[1]].calls)
    /\ orch[oj[1]].calls[oj[2]].outcome = "returned"
    /\ LET c       == orch[oj[1]].calls[oj[2]]
           run_dir == <<_timestamp(now), _slug(c.initiative)>>
       IN  /\ fs' = IF run_dir \in DOMAIN fs THEN fs ELSE (run_dir :> EmptyDir) @@ fs
           /\ pers' = [pers EXCEPT !.call = Some([run_dir |-> run_dir, of |-> oj,
                                                  max_runs |-> max_runs]),
                                   !.created = IF run_dir \in DOMAIN fs THEN @
                                               ELSE Append(@, run_dir)]
    /\ UNCHANGED <<threads, outputs, logs, orch, audit, now, meta, resp>>

\* persist_run, lines 72-111: artifacts, manifest, run counter, pruning
PersistWrite ==
    /\ pers.call # None
    /\ LET c        == Get(pers.call)
           call     == orch[c.of[1]].calls[c.of[2]]
           d0       == fs[c.run_dir]
           files1   == Overwrite(d0.files, Artifacts(Get(call.result)))
           manifest == [ initiative |-> call.initiative,
                         created_at |-> now,
                         project    |-> ProjectName,
                         files      |-> SelectSeq(SortedFileNames,
                                                  LAMBDA n : n \in DOMAIN files1) ]
           files2   == Overwrite(files1, [n \in {"manifest.json"} |-> manifest])
           fs1      == [fs EXCEPT ![c.run_dir] = [d0 EXCEPT !.files = files2]]
       IN  /\ fs' = IF c.max_runs # None THEN _prune_old_runs(fs1, Get(c.max_runs), NoFailure).dirs ELSE fs1
           /\ meta' = increment_run_counter(meta, ProjectName, now)
           /\ pers' = [pers EXCEPT !.call = None, !.persisted = @ \cup {c.of}]
           /\ resp' = [n |-> resp.n, op |-> "persist_run", run_dir |-> c.run_dir,
                       max_runs |-> c.max_runs, created |-> pers.created,
                       written |-> DOMAIN fs1, left |-> DOMAIN fs']
    /\ UNCHANGED <<threads, outputs, logs, orch, audit, now>>

\* No run() and no persist_run is in progress
Quiet == NoRunInProgress /\ pers.call = None

\* projects.py: ensure_project(name), called by the command line and by the
\* API before persist_run
EnsureProject ==
    /\ meta = None
    /\ Quiet
    /\ meta' = Some(NewMeta(ProjectName, now))
    /\ UNCHANGED <<threads, outputs, logs, orch, audit, now, fs, pers, resp>>

\* max_runs of persist_run: no retention, or keep 1..MaxKeep run directories
MaxKeep == 3
KeepArgs == {None} \cup {Some(n) : n \in 1..MaxKeep}

\* The directory of a project under outputs/, NoProject while it does not exist
ProjectAt(root, slug) == IF slug \in DOMAIN root THEN root[slug] ELSE NoProject

\* create_project refusing the name, not the slug, of an existing project
create_project_by_name(root, name, kwargs, at) ==
    LET slug   == projects_slug(name)
        d      == ProjectAt(root, slug)
        extras == [k \in {k \in DOMAIN kwargs : kwargs[k] # None} |-> Get(kwargs[k])]
        data   == Overwrite(NewMeta(name, at), extras)
    IN  IF slug \in DOMAIN root /\ d.meta # None /\ Get(d.meta).name = name
        THEN [root |-> root, raised |-> "ValueError", meta |-> None]
        ELSE [root   |-> (slug :> [d EXCEPT !.meta = Some(data)]) @@ root,
              raised |-> "", meta |-> Some(data)]

\* projects.py: create_project(name, **kwargs). An existing project.json under
\* the slug of the name raises before anything is written; otherwise the
\* metadata is the four base fields and the extras that are not None.
create_project(root, name, kwargs, at) ==
    LET slug   == projects_slug(name)
        d      == ProjectAt(root, slug)
        extras == [k \in {k \in DOMAIN kwargs : kwargs[k] # None} |-> Get(kwargs[k])]
        data   == Overwrite(NewMeta(name, at), extras)
    IN  IF slug \in DOMAIN root /\ d.meta # None
        THEN [root |-> root, raised |-> "ValueError", meta |-> None]
        ELSE [root   |-> (slug :> [d EXCEPT !.meta = Some(data)]) @@ root,
              raised |-> "", meta |-> Some(data)]

\* api.py: post_project turns the ValueError into the response 400
post_project(root, payload, at) ==
    LET r == create_project(root, payload.name,
                            [description |-> payload.description, owner |-> payload.owner], at)
    IN  [root |-> r.root, status |-> IF r.raised = "ValueError" THEN 400 ELSE 201, meta |-> r.meta]

\* f"{key}_raw.txt" for every entry of the raw payload
RawFiles(autogen_raw) == [f \in {<<k, "_raw.txt">> : k \in DOMAIN autogen_raw} |-> autogen_raw[f[1]]]

\* persist_run, lines 72-111, for the run directory named and created in
\* lines 65-70: the artifacts, autogen/ for a non-empty raw payload, the
\* manifest of the files found in the directory, the run counter, the pruning
persist_run_from(root, run_dir, result, autogen_raw, initiative, project, max_runs, at, fail) ==
    LET slug     == projects_slug(project)
        proj     == ProjectAt(root, slug)
        d0       == IF run_dir \in DOMAIN proj.dirs THEN proj.dirs[run_dir] ELSE EmptyDir
        files1   == Overwrite(d0.files, Artifacts(result))
        autogen1 == IF autogen_raw # None /\ DOMAIN Get(autogen_raw) # {}
                    THEN Some(Overwrite(IF d0.autogen = None THEN <<>> ELSE Get(d0.autogen),
                                        RawFiles(Get(autogen_raw))))
                    ELSE d0.autogen
        manifest == [ initiative |-> initiative,
                      created_at |-> at,
                      project    |-> project,
                      files      |-> SelectSeq(SortedFileNames, LAMBDA n : n \in DOMAIN files1) ]
        files2   == Overwrite(files1, [n \in {"manifest.json"} |-> manifest])
        dirs1    == (run_dir :> [files |-> files2, autogen |-> autogen1]) @@ proj.dirs
        meta1    == increment_run_counter(proj.meta, project, at)
        pruned   == IF max_runs # None THEN _prune_old_runs(dirs1, Get(max_runs), fail)
                    ELSE [dirs |-> dirs1, raised |-> FALSE]
        dirs2    == pruned.dirs
    IN  [root    |-> (slug :> [meta |-> meta1, dirs |-> dirs2]) @@ root,
         run_dir |-> run_dir,
         returned |-> IF pruned.raised THEN None ELSE Some(run_dir),
         written |-> DOMAIN dirs1]

\* persist_run incrementing the run counter of every project
persist_run_counts_every_project(root, result, autogen_raw, initiative, project, max_runs, at, fail) ==
    LET slug     == projects_slug(project)
        proj     == ProjectAt(root, slug)
        run_dir  == <<_timestamp(at), _slug(initiative)>>
        d0       == IF run_dir \in DOMAIN proj.dirs THEN proj.dirs[run_dir] ELSE EmptyDir
        files1   == Overwrite(d0.files, Artifacts(result))
        autogen1 == IF autogen_raw # None /\ DOMAIN Get(autogen_raw) # {}
                    THEN Some(Overwrite(IF d0.autogen = None THEN <<>> ELSE Get(d0.autogen),
                                        RawFiles(Get(autogen_raw))))
                    ELSE d0.autogen
        manifest == [ initiative |-> initiative,
                      created_at |-> at,
                      project    |-> project,
                      files      |-> SelectSeq(SortedFileNames, LAMBDA n : n \in DOMAIN files1) ]
        files2   == Overwrite(files1, [n \in {"manifest.json"} |-> manifest])
        dirs1    == (run_dir :> [files |-> files2, autogen |-> autogen1]) @@ proj.dirs
        meta1    == increment_run_counter(proj.meta, project, at)
        pruned   == IF max_runs # None THEN _prune_old_runs(dirs1, Get(max_runs), fail)
                    ELSE [dirs |-> dirs1, raised |-> FALSE]
        dirs2    == pruned.dirs
    IN  [root    |-> [s \in DOMAIN root \cup {slug} |->
                         IF s = slug THEN [meta |-> meta1, dirs |-> dirs2]
                         ELSE [root[s] EXCEPT !.meta = increment_run_counter(@, project, at)]],
         run_dir |-> run_dir,
         returned |-> IF pruned.raised THEN None ELSE Some(run_dir),
         written |-> DOMAIN dirs1]

\* persist_run(result, autogen_raw, initiative, project=..., max_runs=...) as a
\* whole: the run directory under the directory of the project, named by the
\* second and the slug of the initiative (exist_ok), and lines 72-111 on it;
\* it returns run_dir
persist_run(root, result, autogen_raw, initiative, project, max_runs, at, fail) ==
    persist_run_from(root, <<_timestamp(at), _slug(initiative)>>, result, autogen_raw,
                     initiative, project, max_runs, at, fail)

----------------------------------------------------------------------------
(* plan_ops.py *)

\* save_plan: the plan as written, stamped with updated_at
save_plan(p, at) == [p EXCEPT !.updated_at = Some(at)]

\* mitigation_task of add_blocker_task numbered by the blockers of the plan
mitigation_task_by_blockers(next_idx, blocker) ==
    [ id               |-> TaskId("M", next_idx - 1),
      title            |-> <<"Mitigate blocker", Take(blocker, BlockerTitleLen)>>,
      type             |-> "mitigation",
      estimate_points  |-> 2,
      risk             |-> "high",
      risk_score       |-> 12,
      risk_probability |-> 50,
      risk_impact      |-> 5,
      risk_exposure    |-> (50 * 5 * 2) \div 10,
      wsjf             |-> 750,
      priority         |-> next_idx,
      acceptance       |-> "Mitigation effective",
      depends_on       |-> <<>>,
      status           |-> None ]

\* mitigation_task of add_blocker_task
mitigation_task(next_idx, blocker) ==
    [ id               |-> TaskId("M", next_idx),
      title            |-> <<"Mitigate blocker", Take(blocker, BlockerTitleLen)>>,
      type             |-> "mitigation",
      estimate_points  |-> 2,
      risk             |-> "high",
      risk_score       |-> 12,
      risk_probability |-> 50,
      risk_impact      |-> 5,
      risk_exposure    |-> (50 * 5 * 2) \div 10,
      wsjf             |-> 750,
      priority         |-> next_idx,
      acceptance       |-> "Mitigation effective",
      depends_on       |-> <<>>,
      status           |-> None ]

\* add_blocker_task that leaves the stored aggregate as it was
add_blocker_task_stale_aggregate(p, blocker, at) ==
    save_plan([p EXCEPT !.tasks = Append(@, mitigation_task(Len(p.tasks) + 1, blocker)),
                        !.blockers = Append(@, blocker)], at)

\* add_blocker_task on the loaded plan: the plan it saves and returns
add_blocker_task(p, blocker, at) ==
    LET tasks == Append(p.tasks, mitigation_task(Len(p.tasks) + 1, blocker))
    IN  save_plan([p EXCEPT !.tasks = tasks,
                            !.blockers = Append(@, blocker),
                            !.aggregate_risk_score = SumSeq(RiskScores(tasks))], at)

\* The filter of ordered_ids without the "not in seen" test
RECURSIVE Normalize_keep_duplicates(_, _, _)
Normalize_keep_duplicates(ordered_ids, known, seen) ==
    IF ordered_ids = <<>> THEN <<>>
    ELSE IF Head(ordered_ids) \in known
         THEN <<Head(ordered_ids)>> \o Normalize_keep_duplicates(Tail(ordered_ids), known, seen)
         ELSE Normalize_keep_duplicates(Tail(ordered_ids), known, seen)

\* for tid in ordered_ids: if tid in by_id and tid not in seen (lines 62-67)
RECURSIVE Normalize(_, _, _)
Normalize(ordered_ids, known, seen) ==
    IF ordered_ids = <<>> THEN <<>>
    ELSE LET tid == Head(ordered_ids)
         IN  IF tid \in known /\ tid \notin seen
             THEN <<tid>> \o Normalize(Tail(ordered_ids), known, seen \cup {tid})
             ELSE Normalize(Tail(ordered_ids), known, seen)

\* The first position of x in q, 0 if absent
RECURSIVE IndexOf(_, _)
IndexOf(q, x) ==
    IF q = <<>> THEN 0
    ELSE IF Head(q) = x THEN 1
    ELSE LET r == IndexOf(Tail(q), x) IN IF r = 0 THEN 0 ELSE r + 1

\* list.sort(key=priority): a stable sort
RECURSIVE InsertByPriority(_, _)
InsertByPriority(sorted, t) ==
    IF sorted = <<>> THEN <<t>>
    ELSE IF sorted[Len(sorted)].priority <= t.priority THEN Append(sorted, t)
    ELSE Append(InsertByPriority(SubSeq(sorted, 1, Len(sorted) - 1), t), sorted[Len(sorted)])

RECURSIVE SortByPriority(_)
SortByPriority(tasks) ==
    IF tasks = <<>> THEN <<>>
    ELSE InsertByPriority(SortByPriority(SubSeq(tasks, 1, Len(tasks) - 1)), tasks[Len(tasks)])

\* final_order with the remaining tasks taken in reverse
final_order_rest_reversed(tasks, ordered_ids) ==
    LET ids        == SeqMap(LAMBDA t : t.id, tasks)
        normalized == Normalize(ordered_ids, Range(ids), {})
        remaining  == SelectSeq(ids, LAMBDA i : i \notin Range(normalized))
    IN  normalized \o [i \in 1..Len(remaining) |-> remaining[Len(remaining) + 1 - i]]

\* final_order of reprioritize_tasks (lines 60-70)
final_order(tasks, ordered_ids) ==
    LET ids        == SeqMap(LAMBDA t : t.id, tasks)
        normalized == Normalize(ordered_ids, Range(ids), {})
        remaining  == SelectSeq(ids, LAMBDA i : i \notin Range(normalized))
    IN  normalized \o remaining

\* reprioritize_tasks that numbers the priorities from 0
reprioritize_tasks_from_zero(p, ordered_ids, at) ==
    LET tasks == p.tasks
        order == final_order(tasks, ordered_ids)
        renum == [i \in 1..Len(tasks) |->
                    [tasks[i] EXCEPT !.priority = IndexOf(order, tasks[i].id) - 1]]
    IN  save_plan([p EXCEPT !.tasks = SortByPriority(renum)], at)

\* reprioritize_tasks that writes the tasks back without their status
reprioritize_tasks_resets_status(p, ordered_ids, at) ==
    LET tasks == p.tasks
        order == final_order(tasks, ordered_ids)
        renum == [i \in 1..Len(tasks) |->
                    [tasks[i] EXCEPT !.priority = IndexOf(order, tasks[i].id), !.status = None]]
    IN  save_plan([p EXCEPT !.tasks = SortByPriority(renum)], at)

\* reprioritize_tasks on the loaded plan: the plan it saves and returns.
\* by_id maps an id to the last task that carries it; that task gets the new
\* priority.
reprioritize_tasks(p, ordered_ids, at) ==
    LET tasks == p.tasks
        order == final_order(tasks, ordered_ids)
        by_id(i) == \A j \in (i + 1)..Len(tasks) : tasks[j].id # tasks[i].id
        renum == [i \in 1..Len(tasks) |->
                    IF by_id(i) THEN [tasks[i] EXCEPT !.priority = IndexOf(order, tasks[i].id)]
                    ELSE tasks[i]]
    IN  save_plan([p EXCEPT !.tasks = SortByPriority(renum)], at)

\* str.strip of the status texts the model uses
StripText(v) == CASE v = " done" -> "done" [] v = " " -> "" [] OTHER -> v

\* A key of status_map: a task id, possibly padded with blanks; id = None is
\* the empty key "" (pad FALSE) or a blank key (pad TRUE)
KeyTruthy(k) == k.id # None \/ k.pad

\* norm of update_task_statuses (line 91): the stripped key -> stripped value,
\* a later item overriding an earlier one with the same stripped key
RECURSIVE NormMap(_)
NormMap(status_map) ==
    IF status_map = <<>> THEN <<>>
    ELSE LET it   == status_map[Len(status_map)]
             rest == NormMap(SubSeq(status_map, 1, Len(status_map) - 1))
         IN  IF KeyTruthy(it.k) /\ it.v # ""
             THEN (it.k.id :> StripText(it.v)) @@ rest
             ELSE rest

\* update_task_statuses on the loaded plan: the tasks after the loop
StatusTasks(tasks, norm) ==
    [i \in 1..Len(tasks) |->
        IF Some(tasks[i].id) \in DOMAIN norm /\ tasks[i].status # Some(norm[Some(tasks[i].id)])
        THEN [tasks[i] EXCEPT !.status = Some(norm[Some(tasks[i].id)])]
        ELSE tasks[i]]

\* update_task_statuses that saves the plan whether or not a status changed
update_task_statuses_always_saves(p, status_map, at) ==
    [ changed |-> TRUE,
      plan    |-> save_plan([p EXCEPT !.tasks = StatusTasks(p.tasks, NormMap(status_map))], at) ]

\* update_task_statuses on the loaded plan: changed, and the plan it returns
update_task_statuses(p, status_map, at) ==
    LET tasks1 == StatusTasks(p.tasks, NormMap(status_map))
        changed == tasks1 # p.tasks
    IN  [ changed |-> changed,
          plan    |-> IF changed THEN save_plan([p EXCEPT !.tasks = tasks1], at) ELSE p ]

\* Inputs of the plan mutations
StoreBlockers == {<<>>, <<"b">>}
OrderIds == {TaskId("T", 3), TaskId("M", 7), TaskId("X", 9)}
\* ordered_ids: every short list, and one with an unknown id and a duplicate
OrderArgs ==
    SeqsUpTo(OrderIds, MaxOrderLen)
        \cup {<<TaskId("X", 9), TaskId("M", 7), TaskId("M", 7), TaskId("T", 3)>>}
Key(letter, n, pad) == [id |-> Some(TaskId(letter, n)), pad |-> pad]
StatusMaps ==
    { <<>>,
      << [k |-> Key("T", 1, FALSE), v |-> "done"] >>,
      << [k |-> Key("T", 1, TRUE), v |-> " done"] >>,
      << [k |-> Key("X", 9, FALSE), v |-> "done"] >>,
      << [k |-> Key("T", 2, FALSE), v |-> ""], [k |-> Key("M", 7, FALSE), v |-> "todo"] >>,
      << [k |-> [id |-> None, pad |-> FALSE], v |-> "done"] >> }

\* A run directory that was never created
NoDir == <<0, <<"-">>>>

\* The paths a caller passes as run_dir
RunDirs == DOMAIN fs \cup {NoDir}

\* load_plan: plan.json of a run directory, None if there is no such file
load_plan(rd) ==
    IF rd \in DOMAIN fs /\ HasFile(fs[rd], "plan.json")
    THEN Some(fs[rd].files["plan.json"]) ELSE None

\* The ids of the stored tasks in list order: the full ordering a client sends back
CurrentOrder(rd) ==
    IF load_plan(rd) = None THEN {} ELSE {SeqMap(LAMBDA t : t.id, Get(load_plan(rd)).tasks)}

WritePlan(rd, p) == [fs EXCEPT ![rd].files = Overwrite(@, [n \in {"plan.json"} |-> p])]

\* The content of a plan.json that json.loads (line 21) does not parse
Corrupt == [unparsed |-> <<"{">>]

\* Something outside the program leaves an unparsable plan.json in a run
\* directory
CorruptPlan(rd) ==
    /\ load_plan(rd) # None
    /\ load_plan(rd) # Some(Corrupt)
    /\ fs' = WritePlan(rd, Corrupt)
    /\ UNCHANGED <<threads, outputs, logs, orch, audit, now, meta, pers, resp>>

\* add_blocker_task that starts an empty plan where plan.json is missing
AddBlockerTask_creates_plan(rd, blocker) ==
    /\ resp.n < MaxOps
    /\ rd \in DOMAIN fs
    /\ LET empty == [tasks |-> <<>>, blockers |-> <<>>, aggregate_risk_score |-> 0,
                     updated_at |-> None]
           p     == add_blocker_task(IF load_plan(rd) = None THEN empty
                                     ELSE Get(load_plan(rd)), blocker, now)
       IN  /\ fs' = WritePlan(rd, p)
           /\ resp' = [n |-> resp.n + 1, op |-> "add_blocker_task", run_dir |-> rd,
                       raised |-> "", blocker |-> blocker]
    /\ UNCHANGED <<threads, outputs, logs, orch, audit, now, meta, pers>>

\* A call add_blocker_task(run_dir, blocker)
\* add_blocker_task that starts over from an empty plan where plan.json does
\* not parse
AddBlockerTask_resets_corrupt(rd, blocker) ==
    /\ resp.n < MaxOps
    /\ IF load_plan(rd) = None
       THEN /\ resp' = [n |-> resp.n + 1, op |-> "add_blocker_task", run_dir |-> rd,
                        raised |-> "FileNotFoundError"]
            /\ UNCHANGED fs
       ELSE LET empty == [tasks |-> <<>>, blockers |-> <<>>, aggregate_risk_score |-> 0,
                         updated_at |-> None]
                p     == add_blocker_task(IF load_plan(rd) = Some(Corrupt) THEN empty
                                          ELSE Get(load_plan(rd)), blocker, now)
            IN  /\ fs' = WritePlan(rd, p)
                /\ resp' = [n |-> resp.n + 1, op |-> "add_blocker_task", run_dir |-> rd,
                            raised |-> "", blocker |-> blocker]
    /\ UNCHANGED <<threads, outputs, logs, orch, audit, now, meta, pers>>

AddBlockerTask(rd, blocker) ==
    /\ resp.n < MaxOps
    /\ IF load_plan(rd) = None
       THEN /\ resp' = [n |-> resp.n + 1, op |-> "add_blocker_task", run_dir |-> rd,
                        raised |-> "FileNotFoundError"]
            /\ UNCHANGED fs
       ELSE IF load_plan(rd) = Some(Corrupt)
       THEN /\ resp' = [n |-> resp.n + 1, op |-> "add_blocker_task", run_dir |-> rd,
                        raised |-> "JSONDecodeError"]
            /\ UNCHANGED fs
       ELSE LET p == add_blocker_task(Get(load_plan(rd)), blocker, now)
            IN  /\ fs' = WritePlan(rd, p)
                /\ resp' = [n |-> resp.n + 1, op |-> "add_blocker_task", run_dir |-> rd,
                            raised |-> "", blocker |-> blocker]
    /\ UNCHANGED <<threads, outputs, logs, orch, audit, now, meta, pers>>

\* add_blocker_task in a thread, line 31: the thread loads plan.json; a
\* thread that is in no call, or whose call has returned, starts the call
AddBlockerLoad(t, rd, blocker) ==
    /\ resp.n < MaxOps
    /\ threads[t].pc \in {"idle", "saved"}
    /\ IF load_plan(rd) = None
       THEN /\ resp' = [n |-> resp.n + 1, op |-> "add_blocker_task", run_dir |-> rd,
                        raised |-> "FileNotFoundError"]
            /\ threads' = [threads EXCEPT ![t] = Idle]
       ELSE /\ threads' = [threads EXCEPT ![t] =
                              [pc |-> "loaded", op |-> "add_blocker_task", run_dir |-> rd,
                               blocker |-> blocker, plan |-> Get(load_plan(rd))]]
            /\ UNCHANGED resp
    /\ UNCHANGED <<outputs, logs, orch, audit, now, fs, meta, pers>>

\* The save of a thread that reads plan.json again before it writes
AddBlockerSave_reloading(t) ==
    /\ threads[t].pc = "loaded"
    /\ threads[t].op = "add_blocker_task"
    /\ LET th == threads[t]
           p  == add_blocker_task(Get(load_plan(th.run_dir)), th.blocker, now)
       IN  /\ fs' = WritePlan(th.run_dir, p)
           /\ resp' = [n |-> resp.n + 1, op |-> "add_blocker_task", run_dir |-> th.run_dir,
                       raised |-> "", blocker |-> th.blocker]
           /\ threads' = [threads EXCEPT ![t] = [th EXCEPT !.pc = "saved"] @@ [n |-> resp.n + 1]]
    /\ UNCHANGED <<outputs, logs, orch, audit, now, meta, pers>>

\* add_blocker_task in a thread, lines 32-53: the thread appends the task and
\* the blocker to the plan it loaded and saves that plan; n numbers the saves
AddBlockerSave(t) ==
    /\ threads[t].pc = "loaded"
    /\ threads[t].op = "add_blocker_task"
    /\ LET th == threads[t]
           p  == add_blocker_task(th.plan, th.blocker, now)
       IN  /\ fs' = WritePlan(th.run_dir, p)
           /\ resp' = [n |-> resp.n + 1, op |-> "add_blocker_task", run_dir |-> th.run_dir,
                       raised |-> "", blocker |-> th.blocker]
           /\ threads' = [threads EXCEPT ![t] = [th EXCEPT !.pc = "saved"] @@ [n |-> resp.n + 1]]
    /\ UNCHANGED <<outputs, logs, orch, audit, now, meta, pers>>

\* A call reprioritize_tasks(run_dir, ordered_ids)
ReprioritizeTasks(rd, ordered_ids) ==
    /\ resp.n < MaxOps
    /\ IF load_plan(rd) = None
       THEN /\ resp' = [n |-> resp.n + 1, op |-> "reprioritize_tasks", run_dir |-> rd,
                        raised |-> "FileNotFoundError"]
            /\ UNCHANGED fs
       ELSE IF load_plan(rd) = Some(Corrupt)
       THEN /\ resp' = [n |-> resp.n + 1, op |-> "reprioritize_tasks", run_dir |-> rd,
                        raised |-> "JSONDecodeError"]
            /\ UNCHANGED fs
       ELSE LET p == reprioritize_tasks(Get(load_plan(rd)), ordered_ids, now)
            IN  /\ fs' = WritePlan(rd, p)
                /\ resp' = [n |-> resp.n + 1, op |-> "reprioritize_tasks", run_dir |-> rd,
                            raised |-> "", ordered_ids |-> ordered_ids,
                            before |-> Get(load_plan(rd)).tasks]
    /\ UNCHANGED <<threads, outputs, logs, orch, audit, now, meta, pers>>

\* A call update_task_statuses(run_dir, status_map)
UpdateTaskStatuses(rd, status_map) ==
    /\ resp.n < MaxOps
    /\ IF load_plan(rd) = None
       THEN /\ resp' = [n |-> resp.n + 1, op |-> "update_task_statuses", run_dir |-> rd,
                        raised |-> "FileNotFoundError"]
            /\ UNCHANGED fs
       ELSE IF load_plan(rd) = Some(Corrupt)
       THEN /\ resp' = [n |-> resp.n + 1, op |-> "update_task_statuses", run_dir |-> rd,
                        raised |-> "JSONDecodeError"]
            /\ UNCHANGED fs
       ELSE LET u == update_task_statuses(Get(load_plan(rd)), status_map, now)
            IN  /\ fs' = IF u.changed THEN WritePlan(rd, u.plan) ELSE fs
                /\ resp' = [n |-> resp.n + 1, op |-> "update_task_statuses", run_dir |-> rd,
                            raised |-> "", changed |-> u.changed,
                            status_map |-> status_map]
    /\ UNCHANGED <<threads, outputs, logs, orch, audit, now, meta, pers>>

----------------------------------------------------------------------------
(* conversation.py and the chat endpoint of api.py *)

ConversationMax == 500

\* load_conversation: the messages of conversation.json, [] if there is none
load_conversation(d) ==
    IF HasFile(d, "conversation.json") THEN d.files["conversation.json"] ELSE <<>>

\* history[-500:]
LastN(q, n) == IF Len(q) > n THEN SubSeq(q, Len(q) - n + 1, Len(q)) ELSE q

\* append_messages: the run directory with the messages appended
append_messages(d, new_messages) ==
    [d EXCEPT !.files = Overwrite(@, [n \in {"conversation.json"} |->
                            LastN(load_conversation(d) \o new_messages, ConversationMax)])]

\* agent_reply: the user message is stored, then the reply of the agent
agent_reply(d, user_text, at) ==
    LET d1 == append_messages(d, <<[sender |-> "user", content |-> user_text, timestamp |-> at]>>)
    IN  append_messages(d1, <<[sender |-> "agent", content |-> "reply", timestamp |-> at]>>)

\* The payloads of a chat post
ChatPosts ==
    { [message |-> <<" ">>, mode |-> None,                 blocker |-> None, order |-> None],
      [message |-> <<"a">>, mode |-> None,                 blocker |-> None, order |-> None],
      [message |-> <<>>,    mode |-> Some("status"),       blocker |-> None, order |-> None],
      [message |-> <<"a">>, mode |-> Some("add_blocker"),  blocker |-> Some(<<>>), order |-> None],
      [message |-> <<"a">>, mode |-> Some("add_blocker"),  blocker |-> Some(<<"b">>), order |-> None],
      [message |-> <<>>,    mode |-> Some("reprioritize"), blocker |-> None, order |-> Some(<<>>)],
      [message |-> <<>>,    mode |-> Some("reprioritize"), blocker |-> None,
       order |-> Some(<<TaskId("T", 3), TaskId("X", 9)>>)] }

\* The HTTP status post_chat answers with before it reaches agent_reply, 0 if
\* it reaches it (lines 207-231)
ChatRefusal(rd, payload) ==
    IF Strip(payload.message) = <<>> /\ payload.mode = None THEN 400
    ELSE IF rd \notin DOMAIN fs THEN 404
    ELSE IF payload.mode = Some("add_blocker")
         THEN IF payload.blocker = None \/ payload.blocker = Some(<<>>) THEN 400
              ELSE IF load_plan(rd) = None THEN 409 ELSE 0
    ELSE IF payload.mode = Some("reprioritize")
         THEN IF payload.order = None \/ payload.order = Some(<<>>) THEN 400
              ELSE IF load_plan(rd) = None THEN 409 ELSE 0
    ELSE 0

\* The plan mutation of a chat post that is not refused
ChatMutation(rd, payload) ==
    IF payload.mode = Some("add_blocker")
    THEN WritePlan(rd, add_blocker_task(Get(load_plan(rd)), Get(payload.blocker), now))
    ELSE IF payload.mode = Some("reprioritize")
    THEN WritePlan(rd, reprioritize_tasks(Get(load_plan(rd)), Get(payload.order), now))
    ELSE fs

\* system_notes of post_chat
system_notes(payload) ==
    IF payload.mode = Some("add_blocker")
    THEN << <<"Added blocker and mitigation task", Get(payload.blocker)>> >>
    ELSE IF payload.mode = Some("reprioritize")
    THEN << <<"Reprioritized tasks (partial order applied)", Get(payload.order)>> >>
    ELSE <<>>

\* post_chat that stores the user message before it looks at the request
PostChat_appends_first(rd, payload) ==
    /\ resp.n < MaxOps
    /\ IF ChatRefusal(rd, payload) # 0
       THEN /\ resp' = [n |-> resp.n + 1, op |-> "post_chat", run_dir |-> rd,
                        mode |-> payload.mode, raised |-> "HTTPException",
                        status_code |-> ChatRefusal(rd, payload)]
            /\ fs' = IF rd \in DOMAIN fs
                     THEN [fs EXCEPT ![rd] = append_messages(@,
                              <<[sender |-> "user", content |-> Strip(payload.message),
                                 timestamp |-> now]>>)]
                     ELSE fs
       ELSE LET fs1       == ChatMutation(rd, payload)
                augmented == [content |-> Strip(payload.message),
                              system_updates |-> system_notes(payload)]
            IN  /\ fs' = [fs1 EXCEPT ![rd] = agent_reply(@, augmented, now)]
                /\ resp' = [n |-> resp.n + 1, op |-> "post_chat", run_dir |-> rd,
                            mode |-> payload.mode, raised |-> "", status_code |-> 200,
                            system_updates |-> system_notes(payload)]
    /\ UNCHANGED <<threads, outputs, logs, orch, audit, now, meta, pers>>

\* A POST /projects/{slug}/runs/{run_id}/chat
PostChat(rd, payload) ==
    /\ resp.n < MaxOps
    /\ IF ChatRefusal(rd, payload) # 0
       THEN /\ resp' = [n |-> resp.n + 1, op |-> "post_chat", run_dir |-> rd,
                        mode |-> payload.mode, raised |-> "HTTPException",
                        status_code |-> ChatRefusal(rd, payload)]
            /\ UNCHANGED fs
       ELSE LET fs1       == ChatMutation(rd, payload)
                augmented == [content |-> Strip(payload.message),
                              system_updates |-> system_notes(payload)]
            IN  /\ fs' = [fs1 EXCEPT ![rd] = agent_reply(@, augmented, now)]
                /\ resp' = [n |-> resp.n + 1, op |-> "post_chat", run_dir |-> rd,
                            mode |-> payload.mode, raised |-> "", status_code |-> 200,
                            system_updates |-> system_notes(payload)]
    /\ UNCHANGED <<threads, outputs, logs, orch, audit, now, meta, pers>>

----------------------------------------------------------------------------
(* plan_diff.py and the plan-diff endpoint of api.py *)

TASK_FIELDS_OF_INTEREST ==
    << "title", "priority", "estimate_points", "risk", "risk_score", "wsjf",
       "risk_probability", "risk_impact", "risk_exposure", "type", "depends_on" >>

\* _task_index: a dict keeps a key at the place of its first insertion and the
\* value of its last
RECURSIVE _task_index(_)
_task_index(tasks) ==
    IF tasks = <<>> THEN <<>>
    ELSE LET rest == _task_index(SubSeq(tasks, 1, Len(tasks) - 1))
             t    == tasks[Len(tasks)]
             at   == {k \in 1..Len(rest) : rest[k].id = t.id}
         IN  IF at # {} THEN [k \in 1..Len(rest) |-> IF k \in at THEN t ELSE rest[k]]
             ELSE Append(rest, t)

\* changes listing every field of interest, equal or not
Changes_all_fields(o, n) ==
    [f \in Range(TASK_FIELDS_OF_INTEREST) |-> [old |-> o[f], new |-> n[f]]]

\* changes of one task id: the fields of interest whose values differ
Changes(o, n) ==
    [f \in {g \in Range(TASK_FIELDS_OF_INTEREST) : o[g] # n[g]} |-> [old |-> o[f], new |-> n[f]]]

\* q turned by r places, then reversed if rev
Turned(q, r, rev) ==
    LET n   == Len(q)
        rot == [i \in 1..n |-> q[((i - 1 + r) % n) + 1]]
    IN  IF rev THEN [i \in 1..n |-> rot[n + 1 - i]] ELSE rot

\* Python's "not p" of a plan argument: None or an empty dict
Absent(p) == p = None \/ DOMAIN Get(p) = {}

\* (p or {}).get(k, default)
Field(p, k, default) ==
    IF p = None \/ k \notin DOMAIN Get(p) THEN default ELSE Get(p)[k]

\* diff_plans dropping the ids that only the old plan has
diff_plans_no_removed(old, new, r, rev) ==
    [ added |-> IF new = None THEN <<>>
                ELSE SelectSeq(_task_index(Get(new).tasks),
                               LAMBDA t : old = None
                                   \/ \A k \in 1..Len(Get(old).tasks) : Get(old).tasks[k].id # t.id),
      removed |-> <<>>, modified |-> <<>> ]

\* diff_plans(old, new).  The ids in both plans are visited in the iteration
\* order of a set, which the language leaves open: the order of the old plan
\* turned by r places, reversed if rev.
diff_plans(old, new, r, rev) ==
    IF Absent(old) /\ Absent(new)
    THEN [added |-> <<>>, removed |-> <<>>, modified |-> <<>>]
    ELSE LET old_idx == _task_index(Field(old, "tasks", <<>>))
             new_idx == _task_index(Field(new, "tasks", <<>>))
             old_ids == {old_idx[k].id : k \in 1..Len(old_idx)}
             new_ids == {new_idx[k].id : k \in 1..Len(new_idx)}
             both    == SelectSeq(old_idx, LAMBDA t : t.id \in new_ids)
             visited == IF both = <<>> THEN <<>> ELSE Turned(both, r % Len(both), rev)
             n_of(t) == new_idx[CHOOSE k \in 1..Len(new_idx) : new_idx[k].id = t.id]
             changed == SelectSeq(visited, LAMBDA t : DOMAIN Changes(t, n_of(t)) # {})
             agg_old == IF old = None \/ "aggregate_risk_score" \notin DOMAIN Get(old) THEN None
                        ELSE Some(Get(old).aggregate_risk_score)
             agg_new == IF new = None \/ "aggregate_risk_score" \notin DOMAIN Get(new) THEN None
                        ELSE Some(Get(new).aggregate_risk_score)
         IN  [ added    |-> SelectSeq(new_idx, LAMBDA t : t.id \notin old_ids),
               removed  |-> SelectSeq(old_idx, LAMBDA t : t.id \notin new_ids),
               modified |-> [k \in 1..Len(changed) |->
                               [id |-> changed[k].id, changes |-> Changes(changed[k], n_of(changed[k]))]],
               aggregate_risk_old   |-> agg_old,
               aggregate_risk_new   |-> agg_new,
               aggregate_risk_delta |-> IF agg_old # None /\ agg_new # None
                                        THEN Some(Get(agg_new) - Get(agg_old)) ELSE None ]

\* The iteration orders the model draws
Turns == {0, 1}

\* get_plan_diff, lines 172-185: the plan of a run directory, None where
\* plan.json is missing or does not parse
ReadablePlan(rd) == IF load_plan(rd) = Some(Corrupt) THEN None ELSE load_plan(rd)

\* A call diff_plans(old, new)
DiffPlans(old, new, r, rev) ==
    /\ resp' = [n |-> resp.n, op |-> "diff_plans", old |-> old, new |-> new, raised |-> "",
                result |-> diff_plans(old, new, r, rev)]
    /\ UNCHANGED <<threads, outputs, logs, orch, audit, now, fs, meta, pers>>

\* A GET /projects/{slug}/plan-diff?old_run=...&new_run=...
GetPlanDiff(old_run, new_run, r, rev) ==
    /\ IF old_run \notin DOMAIN fs \/ new_run \notin DOMAIN fs
       THEN resp' = [n |-> resp.n, op |-> "get_plan_diff", old_run |-> old_run,
                     new_run |-> new_run, raised |-> "HTTPException", status_code |-> 404]
       ELSE resp' = [n |-> resp.n, op |-> "get_plan_diff", old_run |-> old_run,
                     new_run |-> new_run, raised |-> "", status_code |-> 200,
                     result |-> diff_plans(ReadablePlan(old_run), ReadablePlan(new_run), r, rev)]
    /\ UNCHANGED <<threads, outputs, logs, orch, audit, now, fs, meta, pers>>

\* The clock reaches the next second between two calls of the program
MaxClock == 1
Tick ==
    /\ now < MaxClock
    /\ NoRunInProgress
    /\ pers.call = None
    /\ now' = now + 1
    /\ UNCHANGED <<threads, outputs, logs, orch, audit, fs, meta, pers, resp>>

----------------------------------------------------------------------------
(* api.py create_run and cli.py main: the callers of run() *)

\* Python's truth value of an Optional[str] or Optional[List[str]]
Truthy(x) == x # None /\ Get(x) # <<>>

\* create_run, lines 91-92: the blocker and blockers it passes to run()
create_run_args(payload) ==
    [ single_blocker |-> IF Truthy(payload.blocker) /\ ~Truthy(payload.blockers)
                         THEN payload.blocker ELSE None,
      multi_blockers |-> IF Truthy(payload.blockers) THEN payload.blockers
                         ELSE IF Truthy(payload.blocker) /\ ~Truthy(payload.blockers)
                         THEN Some(<<Get(payload.blocker)>>)
                         ELSE None ]

\* main, lines 55-56: args.blocker is the list of the --blocker options
main_args(args) ==
    [ single_blocker |-> IF Len(args.blocker) = 1 THEN Some(args.blocker[1]) ELSE None,
      multi_blockers |-> IF Len(args.blocker) > 1 THEN Some(args.blocker) ELSE None ]

\* RunCreate payloads and command lines
RunCreates ==
    [ initiative : {<<"a">>},
      blocker    : {None, Some(<<"a">>)},
      blockers   : {None, Some(<<>>), Some(<< <<"b">> >>), Some(<< <<"b">>, <<"a">> >>)},
      max_runs   : {None} ]
CommandLines ==
    [ initiative : {<<"a">>},
      blocker    : {<<>>, << <<"a">> >>, << <<"a">>, <<"b">> >>},
      max_runs   : {None} ]

\* A request was received and its result is not persisted yet
Requesting == resp.op \in {"create_run", "main"} /\ <<resp.o, 1>> \notin pers.persisted

\* The start of a request: ensure_project, a new PMTeamOrchestrator, and the
\* arguments of run() (create_run lines 88-92, main lines 43-56)
Request(op, request, args) ==
    /\ ~Requesting
    /\ Quiet
    /\ \E o \in Orchs :
          /\ orch[o].calls = <<>>
          /\ \A x \in Orchs : x < o => orch[x].calls # <<>>
          /\ resp' = [n |-> resp.n, op |-> op, o |-> o, request |-> request, args |-> args]
    /\ meta' = IF meta = None THEN Some(NewMeta(ProjectName, now)) ELSE meta
    /\ UNCHANGED <<threads, outputs, logs, orch, audit, now, fs, pers>>

CreateRun(payload) == Request("create_run", payload, create_run_args(payload))
Main(args) == Request("main", args, main_args(args))

\* create_run line 93, main line 57: orchestrator.run(...)
RequestRun ==
    /\ Requesting
    /\ orch[resp.o].calls = <<>>
    /\ RunStartSeq(resp.o, resp.request.initiative, resp.args.single_blocker,
                   resp.args.multi_blockers, 0)

\* create_run line 94, main line 73: persist_run(result, ...)
RequestPersist ==
    /\ Requesting
    /\ PersistBegin(<<resp.o, 1>>, resp.request.max_runs)

\* The run() calls of the instances: <<instance, call number>>
Calls == {<<o, j>> : o \in Orchs, j \in 1..MaxRuns + 1}
IsCall(oj) == oj[2] <= Len(orch[oj[1]].calls)
Call(oj) == orch[oj[1]].calls[oj[2]]
ReturnedCalls == {oj \in Calls : IsCall(oj) /\ Call(oj).outcome = "returned"}
RaisedCalls == {oj \in Calls : IsCall(oj) /\ Call(oj).outcome = "raised"}
Result(oj) == Get(Call(oj).result)

Init ==
    /\ orch = [o \in Orchs |-> OrchInit]
    /\ audit = <<>>
    /\ logs = LogsInit
    /\ now = 0
    /\ fs = [rd \in {} |-> EmptyDir]
    /\ meta = None
    /\ pers = [call |-> None, persisted |-> {}, created |-> <<>>]
    /\ resp = [n |-> 0, op |-> "none"]
    /\ outputs = [slug \in {} |-> NoProject]
    /\ threads = [t \in Threads |-> Idle]

----------------------------------------------------------------------------
(* Spec: one run() call of a fresh orchestrator instance on a fresh audit file,
   over all inputs, with every step able to raise *)

Next ==
    \/ \E e \in EventNames : Subscribe(1, e)
    \/ \E i \in Initiatives, b \in BlockerArgs, l \in BlockersArgs, f \in -1..2 :
          RunFirst(1, i, b, l, f)
    \/ \E f \in -1..2 : RunRefine(1, f)
    \/ \E f \in -1..2 : RunRelease(1, f)
    \/ \E f \in -1..2 : RunSummarize(1, f)
    \/ \E lf \in BOOLEAN : RunDone(1, lf)

Spec == Init /\ [][Next]_vars

----------------------------------------------------------------------------
(* SpecSeq: the single-threaded program calling run() several times, on one
   instance or on several, all appending to one audit file.  A call may be
   aborted by the audit write of PLAN_CREATED or of RELEASE_DRAFTED raising. *)

NextSeq ==
    \/ \E o \in Orchs, b \in FewBlockerArgs, l \in FewBlockersArgs, f \in 0..1 :
          RunStartSeq(o, <<"a">>, b, l, f)
    \/ \E o \in Orchs : RunRefine(o, 0)
    \/ \E o \in Orchs, f \in 0..1 : RunRelease(o, f)
    \/ \E o \in Orchs : RunSummarize(o, 0)
    \/ \E o \in Orchs : RunDone(o, FALSE)

SpecSeq == Init /\ [][NextSeq]_vars

----------------------------------------------------------------------------
(* SpecStore: the result of one run() is persisted and its plan.json is then
   mutated by the plan operations and by chat posts.  persist_run
   creates the run directory before it writes plan.json, so a mutation can
   meet a directory without plan.json. *)

NextStore ==
    \/ \E b \in FewBlockerArgs : RunFirst(1, <<"A", "!">>, b, None, 0)
    \/ RunRefine(1, 0)
    \/ RunRelease(1, 0)
    \/ RunSummarize(1, 0)
    \/ RunDone(1, FALSE)
    \/ \E oj \in Calls, mr \in MaxRunsArgs : PersistBegin(oj, mr)
    \/ PersistWrite
    \/ \E rd \in RunDirs, b \in StoreBlockers : AddBlockerTask(rd, b)
    \/ \E rd \in RunDirs : \E ids \in OrderArgs \cup CurrentOrder(rd) : ReprioritizeTasks(rd, ids)
    \/ \E rd \in RunDirs, sm \in StatusMaps : UpdateTaskStatuses(rd, sm)
    \/ \E rd \in RunDirs, payload \in ChatPosts : PostChat(rd, payload)

SpecStore == Init /\ [][NextStore]_vars

----------------------------------------------------------------------------
(* SpecDiff: each result of run() for one initiative is persisted after its
   run, at the same or at a later second than the one before; between the
   runs a plan.json is mutated once and the plans of two run directories are
   compared.  A comparison reads only, so the model ends a behaviour with it. *)

\* The run directories whose plan.json is as persist_run wrote it
Unmutated ==
    {rd \in DOMAIN fs : load_plan(rd) # None /\ Get(load_plan(rd)).updated_at = None}

NextDiff ==
    \/ /\ resp.op # "get_plan_diff"
       /\ \/ \E b \in FewBlockerArgs : RunStartSeq(1, <<"a">>, b, None, 0)
          \/ RunRefine(1, 0)
          \/ RunRelease(1, 0)
          \/ RunSummarize(1, 0)
          \/ RunDone(1, FALSE)
          \/ \E j \in {Len(orch[1].calls)} \ {0} : PersistBegin(<<1, j>>, None)
          \/ PersistWrite
          \/ Tick
    \/ /\ resp.op # "get_plan_diff"
       /\ Quiet
       /\ \/ \E rd \in Unmutated : ReprioritizeTasks(rd, <<TaskId("T", 3)>>)
          \/ \E rd \in Unmutated :
                UpdateTaskStatuses(rd, << [k |-> Key("T", 1, FALSE), v |-> "done"] >>)
          \/ \E o \in RunDirs, n \in DOMAIN fs, r \in Turns, rev \in BOOLEAN :
                (o = NoDir \/ o = n \/ NameLess(o, n)) /\ GetPlanDiff(o, n, r, rev)

SpecDiff == Init /\ [][NextDiff]_vars

----------------------------------------------------------------------------
(* SpecPersist: the program runs and persists one result after the other for
   one project, with or without retention, project.json being created first
   or not, at the same or at later seconds. *)

NextPersist ==
    \/ \E i \in {<<"a">>, <<" ", "b">>} : RunStartSeq(1, i, None, None, 0)
    \/ RunRelease(1, 0)
    \/ RunSummarize(1, 0)
    \/ RunDone(1, FALSE)
    \/ EnsureProject
    \/ \E j \in {Len(orch[1].calls)} \ {0}, mr \in KeepArgs : PersistBegin(<<1, j>>, mr)
    \/ PersistWrite
    \/ Tick

SpecPersist == Init /\ [][NextPersist]_vars

----------------------------------------------------------------------------
(* SpecAudit: PM_TEAM_AUDIT_MAX_BYTES is set or not, then one instance runs
   with blockers, call after call, while the clock advances between the calls;
   the file system may fail the size check or the rename of a rotation. *)

NextAudit ==
    \/ \E v \in EnvValues : SetEnv(v)
    \/ \E b \in FewBlockerArgs : RunStartSeq(1, <<"a">>, b, None, 0)
    \/ RunRefine(1, 0)
    \/ RunRelease(1, 0)
    \/ RunSummarize(1, 0)
    \/ RunDone(1, FALSE)
    \/ Tick

SpecAudit == Init /\ [][NextAudit]_vars

\* run() is straight-line code: a call that started goes on to its next step
RunGoesOn == RunRefine(1, 0) \/ RunRelease(1, 0) \/ RunSummarize(1, 0) \/ RunDone(1, FALSE)

\* SpecAuditFair: an integer threshold, runs with one blocker, and run() calls
\* that go on once started
NextAuditFair ==
    \/ \E v \in {Some(<<"int", 0>>), Some(<<"int", 4>>)} : SetEnv(v)
    \/ RunStartSeq(1, <<"a">>, Some(<<"a">>), None, 0)
    \/ RunGoesOn

SpecAuditFair == Init /\ [][NextAuditFair]_vars /\ WF_vars(RunGoesOn)

----------------------------------------------------------------------------
(* SpecPlan: one run with or without a blocker is persisted, then the plan
   operations work on its plan.json. *)

NextPlan ==
    \/ \E b \in FewBlockerArgs : RunFirst(1, <<"a">>, b, None, 0)
    \/ RunGoesOn
    \/ PersistBegin(<<1, 1>>, None)
    \/ PersistWrite
    \/ \E rd \in DOMAIN fs, b \in StoreBlockers : AddBlockerTask(rd, b)
    \/ \E rd \in DOMAIN fs : \E ids \in OrderArgs \cup CurrentOrder(rd) : ReprioritizeTasks(rd, ids)
    \/ \E rd \in DOMAIN fs, sm \in StatusMaps : UpdateTaskStatuses(rd, sm)

SpecPlan == Init /\ [][NextPlan]_vars

----------------------------------------------------------------------------
(* SpecEquiv: runs of one initiative, without blockers or with a list of
   blockers, are persisted as the clock advances, and add_blocker_task adds
   blockers to the plans persisted. *)

\* The results returned so far are persisted
AllPersisted == ReturnedCalls \subseteq pers.persisted

NextEquiv ==
    \/ \E l \in {None, Some(<< <<"b">> >>), Some(<< <<"b">>, <<>> >>)} :
          AllPersisted /\ pers.call = None /\ RunStartSeq(1, <<"a">>, None, l, 0)
    \/ RunGoesOn
    \/ \E j \in {Len(orch[1].calls)} \ {0} : PersistBegin(<<1, j>>, None)
    \/ PersistWrite
    \/ AllPersisted /\ DOMAIN fs # {} /\ Tick
    \/ \E rd \in {d \in DOMAIN fs : load_plan(d) # None /\ Len(Get(load_plan(d)).blockers) < 2},
          b \in StoreBlockers : Quiet /\ AllPersisted /\ AddBlockerTask(rd, b)

SpecEquiv == Init /\ [][NextEquiv]_vars

----------------------------------------------------------------------------
(* SpecCallers: requests to the API and command lines, one after the other,
   each with its own orchestrator instance. *)

NextCallers ==
    \/ \E payload \in RunCreates : CreateRun(payload)
    \/ \E args \in CommandLines : Main(args)
    \/ RequestRun
    \/ \E o \in Orchs : RunRefine(o, 0)
    \/ \E o \in Orchs : RunRelease(o, 0)
    \/ \E o \in Orchs : RunSummarize(o, 0)
    \/ \E o \in Orchs : RunDone(o, FALSE)
    \/ RequestPersist
    \/ PersistWrite

SpecCallers == Init /\ [][NextCallers]_vars

----------------------------------------------------------------------------
(* The projects under outputs/: create_project, ensure_project and
   persist_run as whole calls, one after the other *)

\* Project names: two names of the slug "a", one of the slug "b"
ProjectNames == {<<"a">>, <<"A">>, <<"b">>}

\* ProjectCreate payloads of POST /projects
ProjectCreates ==
    [name : ProjectNames, description : {None, Some(<<"a">>)}, owner : {None}]

\* The raw payload of the autogen agents: absent, empty, or one text per key
RawArgs == {None, Some(<<>>), Some([k \in {"planner", "risk"} |-> <<"a">>])}

\* POST /projects
PostProject(payload) ==
    /\ Quiet
    /\ resp.n < MaxOps
    /\ LET r == post_project(outputs, payload, now)
       IN  /\ outputs' = r.root
           /\ resp' = [n |-> resp.n + 1, op |-> "post_project", payload |-> payload,
                       status |-> r.status, meta |-> r.meta]
    /\ UNCHANGED <<threads, logs, orch, audit, now, fs, meta, pers>>

\* projects.py: ensure_project(name) writes the project.json that is missing
EnsureProjectIn(name) ==
    /\ Quiet
    /\ ProjectAt(outputs, projects_slug(name)).meta = None
    /\ outputs' = (projects_slug(name) :>
                      [ProjectAt(outputs, projects_slug(name))
                          EXCEPT !.meta = Some(NewMeta(name, now))]) @@ outputs
    /\ UNCHANGED <<threads, logs, orch, audit, now, fs, meta, pers, resp>>

\* persist_run(result, autogen_raw, initiative, project=project,
\* max_runs=max_runs) of the result a run() call returned
PersistRun(oj, autogen_raw, project, max_runs, fail) ==
    /\ Quiet
    /\ resp.n < MaxOps
    /\ oj \in ReturnedCalls
    /\ LET r == persist_run(outputs, Get(Call(oj).result), autogen_raw, Call(oj).initiative,
                            project, max_runs, now, fail)
       IN  /\ outputs' = r.root
           /\ resp' = [n |-> resp.n + 1, op |-> "persist_run", of |-> oj,
                       autogen_raw |-> autogen_raw, project |-> project,
                       max_runs |-> max_runs, fail |-> fail,
                       run_dir |-> r.run_dir, returned |-> r.returned,
                       written |-> r.written]
    /\ UNCHANGED <<threads, logs, orch, audit, now, fs, meta, pers>>

\* The run directories persist_run finds when it starts to prune
DirsToPrune(oj, project) ==
    persist_run(outputs, Get(Call(oj).result), None, Call(oj).initiative,
                project, None, now, NoFailure).written

\* persist_run in a thread, lines 65-70: the directory of the project and the
\* run directory, named by the second and the slug, are created (exist_ok)
PersistCreate(t, oj, project, max_runs) ==
    /\ NoRunInProgress
    /\ resp.n < MaxOps
    /\ threads[t].pc = "idle"
    /\ oj \in ReturnedCalls
    /\ LET slug    == projects_slug(project)
           proj    == ProjectAt(outputs, slug)
           run_dir == <<_timestamp(now), _slug(Call(oj).initiative)>>
       IN  /\ outputs' = (slug :> [proj EXCEPT !.dirs = @ @@ (run_dir :> EmptyDir)]) @@ outputs
           /\ threads' = [threads EXCEPT ![t] =
                             [pc |-> "created", op |-> "persist_run", of |-> oj,
                              project |-> project, max_runs |-> max_runs,
                              run_dir |-> run_dir]]
    /\ UNCHANGED <<logs, orch, audit, now, fs, meta, pers, resp>>

\* persist_run in a thread, lines 72-111: the first write_text into a run
\* directory that is gone raises FileNotFoundError
PersistFinish(t) ==
    /\ threads[t].pc = "created"
    /\ threads[t].op = "persist_run"
    /\ LET th == threads[t]
           r  == persist_run_from(outputs, th.run_dir, Get(Call(th.of).result), None,
                                  Call(th.of).initiative, th.project, th.max_runs, now,
                                  NoFailure)
       IN  IF th.run_dir \in DOMAIN ProjectAt(outputs, projects_slug(th.project)).dirs
           THEN /\ outputs' = r.root
                /\ resp' = [n |-> resp.n + 1, op |-> "persist_run", of |-> th.of,
                            autogen_raw |-> None, project |-> th.project,
                            max_runs |-> th.max_runs, fail |-> NoFailure,
                            run_dir |-> th.run_dir, returned |-> r.returned,
                            written |-> r.written, raised |-> ""]
           ELSE /\ UNCHANGED outputs
                /\ resp' = [n |-> resp.n + 1, op |-> "persist_run", of |-> th.of,
                            autogen_raw |-> None, project |-> th.project,
                            max_runs |-> th.max_runs, fail |-> NoFailure,
                            run_dir |-> th.run_dir, returned |-> None,
                            written |-> {}, raised |-> "FileNotFoundError"]
    /\ threads' = [threads EXCEPT ![t] = Idle]
    /\ UNCHANGED <<logs, orch, audit, now, fs, meta, pers>>

\* The run() call that returned last
LastCall == {<<1, j>> : j \in {Len(orch[1].calls)} \ {0}} \cap ReturnedCalls

(* SpecProjects: the result of a run with a blocker is persisted under projects that are
   created, before or after, through POST /projects or ensure_project. *)
NextProjects ==
    \/ RunFirst(1, <<"a">>, Some(<<"a">>), None, 0)
    \/ RunGoesOn
    \/ \E payload \in ProjectCreates : PostProject(payload)
    \/ \E name \in ProjectNames : EnsureProjectIn(name)
    \/ \E oj \in LastCall, name \in ProjectNames, mr \in MaxRunsArgs :
          PersistRun(oj, None, name, mr, NoFailure)

SpecProjects == Init /\ [][NextProjects]_vars

(* SpecArtifacts: results of runs of one initiative, with or without a
   blocker, are persisted under one project, with or without a raw payload. *)
NextArtifacts ==
    \/ \E b \in FewBlockerArgs : RunStartSeq(1, <<"a">>, b, None, 0)
    \/ RunGoesOn
    \/ Tick
    \/ \E oj \in LastCall, raw \in RawArgs : PersistRun(oj, raw, ProjectName, None, NoFailure)
    \/ \E oj \in LastCall : PersistRun(oj, None, ProjectName, Some(1), NoFailure)

SpecArtifacts == Init /\ [][NextArtifacts]_vars

(* SpecPrune: results of runs of two initiatives with a blocker are persisted
   under one project, without retention or with a retention of one directory
   in which the removal of a directory may fail; the clock advances once a
   run directory of the current second exists. *)
NextPrune ==
    \/ \E i \in {<<"a">>, <<" ", "b">>} : RunStartSeq(1, i, Some(<<"a">>), None, 0)
    \/ RunGoesOn
    \/ (\E rd \in DOMAIN ProjectAt(outputs, projects_slug(ProjectName)).dirs : rd[1] = now) /\ Tick
    \/ \E oj \in LastCall : PersistRun(oj, None, ProjectName, None, NoFailure)
    \/ \E oj \in LastCall :
          \E fail \in {NoFailure} \cup RemovalFailures(DirsToPrune(oj, ProjectName)) :
             PersistRun(oj, None, ProjectName, Some(1), fail)

SpecPrune == Init /\ [][NextPrune]_vars

----------------------------------------------------------------------------
(* SpecConc: run() calls on the two orchestrator instances go on side by
   side on the one audit file, without rotation; a step of a call (its
   emit with the one log() append) is atomic. *)

NextConc ==
    \/ \E o \in Orchs, b \in FewBlockerArgs : RunStart(o, <<"a">>, b, None, 0)
    \/ \E o \in Orchs : RunRefine(o, 0)
    \/ \E o \in Orchs : RunRelease(o, 0)
    \/ \E o \in Orchs : RunSummarize(o, 0)
    \/ \E o \in Orchs : RunDone(o, FALSE)

SpecConc == Init /\ [][NextConc]_vars

----------------------------------------------------------------------------
(* SpecRace: one run with a blocker is persisted, and the threads call
   add_blocker_task on its run directory, each loading plan.json and saving
   it in steps of their own. *)

RaceBlockers == {<<"a">>, <<"b">>}

NextRace ==
    \/ RunFirst(1, <<"a">>, Some(<<"a">>), None, 0)
    \/ RunGoesOn
    \/ PersistBegin(<<1, 1>>, None)
    \/ PersistWrite
    \/ \E t \in Threads, rd \in DOMAIN fs, b \in RaceBlockers : AddBlockerLoad(t, rd, b)
    \/ \E t \in Threads : AddBlockerSave(t)

SpecRace == Init /\ [][NextRace]_vars

----------------------------------------------------------------------------
(* SpecPersistConc: the results of runs of two initiatives are persisted
   under one project by two threads, with or without a retention of one
   directory; each thread creates its run directory in one step and writes
   into it in another, and the clock advances between the steps. *)

NextPersistConc ==
    \/ \E i \in {<<"a">>, <<" ", "b">>} : RunStartSeq(1, i, Some(<<"a">>), None, 0)
    \/ RunGoesOn
    \/ Tick
    \/ \E t \in Threads, oj \in LastCall, mr \in MaxRunsArgs :
          PersistCreate(t, oj, ProjectName, mr)
    \/ \E t \in Threads : PersistFinish(t)

SpecPersistConc == Init /\ [][NextPersistConc]_vars

----------------------------------------------------------------------------
(* SpecChat: one run with a blocker is persisted, and chat posts reach its
   run directory, before and after plan.json is written, or an unknown run. *)

NextChat ==
    \/ RunFirst(1, <<"a">>, Some(<<"a">>), None, 0)
    \/ RunGoesOn
    \/ PersistBegin(<<1, 1>>, None)
    \/ PersistWrite
    \/ \E rd \in RunDirs, payload \in ChatPosts : PostChat(rd, payload)

SpecChat == Init /\ [][NextChat]_vars

----------------------------------------------------------------------------
(* SpecCorrupt: one run with a blocker is persisted, its plan.json may be
   left unparsable, and the plan mutations are called on the run directory
   before plan.json is written, on the plan, and on the unparsable file. *)

NextCorrupt ==
    \/ RunFirst(1, <<"a">>, Some(<<"a">>), None, 0)
    \/ RunGoesOn
    \/ PersistBegin(<<1, 1>>, None)
    \/ PersistWrite
    \/ \E rd \in DOMAIN fs : CorruptPlan(rd)
    \/ \E rd \in DOMAIN fs, b \in StoreBlockers : AddBlockerTask(rd, b)
    \/ \E rd \in DOMAIN fs, ids \in OrderArgs : ReprioritizeTasks(rd, ids)
    \/ \E rd \in DOMAIN fs, sm \in StatusMaps : UpdateTaskStatuses(rd, sm)

SpecCorrupt == Init /\ [][NextCorrupt]_vars

----------------------------------------------------------------------------
(* SpecDiffAbsent: the results of run() for one initiative are persisted, a
   plan.json may be left unparsable, and diff_plans is called through the
   endpoint on two run directories, with or without a readable plan.json, or
   directly on plans that are absent, empty, without a score, or on disk. *)

\* The plans diff_plans is called on
PlanInputs ==
    {None, Some(<<>>), Some([tasks |-> <<>>])}
        \cup {ReadablePlan(rd) : rd \in DOMAIN fs}

NextDiffAbsent ==
    /\ resp.op \notin {"get_plan_diff", "diff_plans"}
    /\ \/ \E b \in FewBlockerArgs : RunStartSeq(1, <<"a">>, b, None, 0)
       \/ RunGoesOn
       \/ \E j \in {Len(orch[1].calls)} \ {0} : PersistBegin(<<1, j>>, None)
       \/ PersistWrite
       \/ Tick
       \/ \E rd \in DOMAIN fs : CorruptPlan(rd)
       \/ \E o \in DOMAIN fs, n \in DOMAIN fs : GetPlanDiff(o, n, 0, FALSE)
       \/ \E old \in PlanInputs, new \in PlanInputs : DiffPlans(old, new, 0, FALSE)

SpecDiffAbsent == Init /\ [][NextDiffAbsent]_vars

----------------------------------------------------------------------------
(* Properties of run() *)

\* The blockers a call passes, single blocker first: a single blocker that is
\* an empty string counts as not passed (run() tests it with "if blocker:").
Given(c) ==
    (IF c.blocker # None /\ c.blocker # Some(<<>>) THEN c.blocker ELSE <<>>)
    \o (IF c.blockers # None THEN Get(c.blockers) ELSE <<>>)

\* The audit lines a call wrote, in file order
LinesOf(oj) == SelectSeq(audit, LAMBDA l : l.by = oj)
EventsOf(oj) == SeqMap(LAMBDA l : l.event, LinesOf(oj))
BlockerLinesOf(oj) == SelectSeq(LinesOf(oj), LAMBDA l : l.event = "BLOCKER_ADDED")

IsPrefix(s, t) == Len(s) <= Len(t) /\ s = SubSeq(t, 1, Len(s))

\* PLAN_CREATED, one BLOCKER_ADDED per blocker, RELEASE_DRAFTED, STAKEHOLDER_SUMMARY
EventOrder(k) ==
    <<"PLAN_CREATED">> \o [i \in 1..k |-> "BLOCKER_ADDED"]
                       \o <<"RELEASE_DRAFTED", "STAKEHOLDER_SUMMARY">>

\* C1: a run() that is passed k blockers returns a plan of exactly 6 + k tasks,
\* and plan.aggregate_risk_score and the result's aggregate_risk_score both
\* equal the sum of risk_score over the tasks of the returned plan.
C1_TaskCountAndAggregateRisk ==
    \A oj \in ReturnedCalls :
        LET r == Result(oj)
        IN  /\ Len(r.plan.tasks) = 6 + Len(Given(Call(oj)))
            /\ r.plan.aggregate_risk_score = SumSeq(RiskScores(r.plan.tasks))
            /\ r.aggregate_risk_score = SumSeq(RiskScores(r.plan.tasks))

C1_Witness ==
    \E oj \in ReturnedCalls :
        /\ Len(Given(Call(oj))) = 3
        /\ Len(Result(oj).plan.tasks) = 9
        /\ Result(oj).aggregate_risk_score = 81

\* C2: after one successful run() with k blockers on a fresh audit file the
\* file holds exactly PLAN_CREATED, then k BLOCKER_ADDED in processing order,
\* then RELEASE_DRAFTED, STAKEHOLDER_SUMMARY and RUN_COMPLETED, and nothing else.
C2_AuditOrderOfOneRun ==
    \A oj \in ReturnedCalls :
        LET g == Given(Call(oj))
        IN  /\ SeqMap(LAMBDA l : l.event, audit) = EventOrder(Len(g)) \o <<"RUN_COMPLETED">>
            /\ \A i \in 1..Len(g) : audit[1 + i].blocker = g[i]

C2_Witness ==
    \E oj \in ReturnedCalls :
        /\ Given(Call(oj)) = << <<"b">>, <<"a">> >>
        /\ Len(audit) = 6
        /\ audit[6].event = "RUN_COMPLETED"

\* C3: with both a single blocker b and a list L passed, b is processed first
\* and then L in list order: plan.blockers = [b] + L, and the i-th mitigation
\* task and the i-th BLOCKER_ADDED line belong to the i-th element.
C3_SingleBlockerThenList ==
    \A oj \in ReturnedCalls :
        LET c == Call(oj)
            r == Result(oj)
        IN  (c.blocker # None /\ c.blocker # Some(<<>>) /\ c.blockers # None) =>
                LET order == <<Get(c.blocker)>> \o Get(c.blockers)
                IN  /\ r.plan.blockers = order
                    /\ Len(BlockerLinesOf(oj)) = Len(order)
                    /\ \A i \in 1..Len(order) :
                          /\ r.plan.tasks[6 + i].type = "mitigation"
                          /\ r.plan.tasks[6 + i].title
                                = <<"Mitigate blocker", Take(order[i], BlockerTitleLen)>>
                          /\ BlockerLinesOf(oj)[i].blocker = order[i]

C3_Witness ==
    \E oj \in ReturnedCalls :
        /\ Call(oj).blocker = Some(<<"a">>)
        /\ Call(oj).blockers = Some(<< <<"b">>, <<>> >>)
        /\ Result(oj).plan.blockers = << <<"a">>, <<"b">>, <<>> >>

\* C4: the counters belong to the instance: a new instance has plans_created = 0
\* and blockers_recorded = 0, and the snapshot returned by the n-th of n
\* completed run() calls of an instance has plans_created = n and
\* blockers_recorded = the number of blockers those n calls processed.
C4_MetricsPerInstance ==
    \A o \in Orchs :
        /\ orch[o].calls = <<>> =>
              snapshot(orch[o].metrics) =
                  [plans_created |-> 0, blockers_recorded |-> 0, last_points |-> 0]
        /\ \A n \in 1..Len(orch[o].calls) :
              (\A i \in 1..n : orch[o].calls[i].outcome = "returned") =>
                  LET m == Get(orch[o].calls[n].result).metrics
                  IN  /\ m.plans_created = n
                      /\ m.blockers_recorded
                            = SumSeq([i \in 1..n |-> Len(Given(orch[o].calls[i]))])

C4_Witness ==
    /\ Len(orch[1].calls) = 2
    /\ orch[2].calls = <<>>
    /\ \A i \in 1..2 : orch[1].calls[i].outcome = "returned"
    /\ Get(orch[1].calls[1].result).metrics.blockers_recorded = 1
    /\ Get(orch[1].calls[2].result).metrics.blockers_recorded = 4
    /\ Get(orch[1].calls[2].result).metrics.plans_created = 2

\* C5: the point total a run records (metrics.last_points of the result, and
\* the points field of its RUN_COMPLETED line) equals the sum of
\* estimate_points over the tasks of the plan the run returns.
C5_LastPointsIsPlanTotal ==
    \A oj \in ReturnedCalls :
        LET r     == Result(oj)
            total == SumSeq(EstimatePoints(r.plan.tasks))
        IN  /\ r.metrics.last_points = total
            /\ \A i \in 1..Len(audit) :
                  (audit[i].by = oj /\ audit[i].event = "RUN_COMPLETED") =>
                      audit[i].points = total

\* C6: a run() in which a step raises returns no result and writes no
\* RUN_COMPLETED line; the lines of the steps completed before the failure stay
\* in the log and are a prefix of PLAN_CREATED, BLOCKER_ADDED*, RELEASE_DRAFTED,
\* STAKEHOLDER_SUMMARY.
C6_AbortedRun ==
    /\ [](\A oj \in RaisedCalls :
            /\ Call(oj).result = None
            /\ IsPrefix(EventsOf(oj), EventOrder(Len(Given(Call(oj)))))
            /\ \A i \in 1..Len(BlockerLinesOf(oj)) :
                  BlockerLinesOf(oj)[i].blocker = Given(Call(oj))[i])
    /\ [][IsPrefix(audit, audit')]_vars

C6_Witness ==
    \E oj \in RaisedCalls :
        /\ EventsOf(oj) = <<"PLAN_CREATED", "BLOCKER_ADDED", "RELEASE_DRAFTED">>
        /\ Call(oj).result = None

----------------------------------------------------------------------------
(* Properties of the plan mutations *)

\* The tasks of the plan.json of a run directory
PlanTasks(rd) == fs[rd].files["plan.json"].tasks

Ids(tasks) == SeqMap(LAMBDA t : t.id, tasks)

\* The elements of q at the positions in keep, in increasing position
RECURSIVE AtPositions(_, _)
AtPositions(q, keep) ==
    IF q = <<>> THEN <<>>
    ELSE AtPositions(SubSeq(q, 1, Len(q) - 1), keep)
            \o (IF Len(q) \in keep THEN <<q[Len(q)]>> ELSE <<>>)

\* The requested ids that name a task, each at its first occurrence, followed
\* by the ids of the tasks not requested, in the order the tasks had
RequestedOrder(before, ordered_ids) ==
    LET known     == Range(Ids(before))
        firsts    == {i \in 1..Len(ordered_ids) :
                        /\ ordered_ids[i] \in known
                        /\ \A j \in 1..(i - 1) : ordered_ids[j] # ordered_ids[i]}
        mentioned == Range(ordered_ids)
        rest      == {i \in 1..Len(before) : before[i].id \notin mentioned}
    IN  AtPositions(ordered_ids, firsts) \o AtPositions(Ids(before), rest)

\* The last call was a reprioritize_tasks that returned
Reprioritized == resp.op = "reprioritize_tasks" /\ resp.raised = ""

\* C7: reprioritize_tasks on a plan with n tasks leaves n tasks, ordered as the
\* requested ids (unknown ids dropped, duplicates collapsed to the first
\* occurrence) followed by the unmentioned tasks in their prior relative order,
\* with priorities 1..n in that order, the stored list sorted by priority.
C7_ReprioritizeOrder ==
    Reprioritized =>
        LET after == PlanTasks(resp.run_dir)
        IN  /\ Len(after) = Len(resp.before)
            /\ Ids(after) = RequestedOrder(resp.before, resp.ordered_ids)
            /\ \A i \in 1..Len(after) : after[i].priority = i
            /\ \A i \in 1..Len(after) :
                  \E j \in 1..Len(resp.before) :
                      resp.before[j] = [after[i] EXCEPT !.priority = resp.before[j].priority]

C7_Witness ==
    /\ Reprioritized
    /\ resp.ordered_ids = <<TaskId("X", 9), TaskId("M", 7), TaskId("M", 7), TaskId("T", 3)>>
    /\ Ids(resp.before)[1] = TaskId("T", 1)
    /\ Len(resp.before) = 7
    /\ Ids(PlanTasks(resp.run_dir)) =
          <<TaskId("M", 7), TaskId("T", 3), TaskId("T", 1), TaskId("T", 2),
            TaskId("T", 4), TaskId("T", 5), TaskId("T", 6)>>

\* C8: a reprioritize_tasks that follows a reprioritize_tasks on the same run
\* directory, with the same ordered_ids or with the full order the first one
\* produced, changes no priority and not the order of the tasks.
C8_ReprioritizeIdempotent ==
    [][ ( /\ Reprioritized
          /\ resp'.n = resp.n + 1
          /\ resp'.op = "reprioritize_tasks"
          /\ resp'.run_dir = resp.run_dir
          /\ \/ resp'.ordered_ids = resp.ordered_ids
             \/ resp'.ordered_ids = Ids(PlanTasks(resp.run_dir)) )
        => /\ resp'.raised = ""
           /\ PlanTasks(resp.run_dir)' = PlanTasks(resp.run_dir) ]_vars

C8_Witness ==
    /\ Reprioritized
    /\ resp.n >= 2
    /\ resp.ordered_ids = <<TaskId("T", 3), TaskId("X", 9)>>
    /\ Ids(resp.before)[1] = TaskId("T", 3)
    /\ PlanTasks(resp.run_dir) = resp.before

\* C9: add_blocker_task or reprioritize_tasks on a run directory without
\* plan.json raises the not-found error to its caller (the chat endpoint
\* answers 409) and changes no file: no plan.json appears and the other files
\* of the directory stay as they were.
C9_MissingPlanFailsClosed ==
    [][ /\ ( /\ resp'.n = resp.n + 1
             /\ resp'.op \in {"add_blocker_task", "reprioritize_tasks"}
             /\ load_plan(resp'.run_dir) = None )
           => (resp'.raised = "FileNotFoundError" /\ fs' = fs)
        /\ ( /\ resp'.n = resp.n + 1
             /\ resp'.op = "post_chat"
             /\ resp'.run_dir \in DOMAIN fs
             /\ load_plan(resp'.run_dir) = None
             /\ resp'.mode \in {Some("add_blocker"), Some("reprioritize")} )
           => (resp'.raised = "HTTPException" /\ resp'.status_code \in {400, 409} /\ fs' = fs)
      ]_vars

C9_Witness ==
    /\ resp.op = "add_blocker_task"
    /\ resp.raised = "FileNotFoundError"
    /\ resp.run_dir \in DOMAIN fs
    /\ DOMAIN fs[resp.run_dir].files = {}

\* C10: the plan run() builds and returns, and every plan.json after any
\* sequence of add_blocker_task, reprioritize_tasks and update_task_statuses,
\* has aggregate_risk_score = the sum of risk_score over its tasks.
C10_AggregateRiskIsSum ==
    /\ \A o \in Orchs :
          orch[o].plan # None =>
              Get(orch[o].plan).aggregate_risk_score
                  = SumSeq(RiskScores(Get(orch[o].plan).tasks))
    /\ \A oj \in ReturnedCalls :
          Result(oj).plan.aggregate_risk_score = SumSeq(RiskScores(Result(oj).plan.tasks))
    /\ \A rd \in DOMAIN fs :
          HasFile(fs[rd], "plan.json") =>
              fs[rd].files["plan.json"].aggregate_risk_score = SumSeq(RiskScores(PlanTasks(rd)))

C10_Witness ==
    /\ resp.n = 3
    /\ resp.op = "update_task_statuses"
    /\ resp.raised = ""
    /\ resp.changed
    /\ Len(PlanTasks(resp.run_dir)) = 8
    /\ Ids(PlanTasks(resp.run_dir))[1] = TaskId("T", 3)
    /\ fs[resp.run_dir].files["plan.json"].aggregate_risk_score = 69

\* The plans of a state: the plan a run() is building, the plans of the
\* returned results, and every plan.json
PlansOfState ==
    {Get(orch[o].plan) : o \in {x \in Orchs : orch[x].plan # None}}
        \cup {Result(oj).plan : oj \in ReturnedCalls}
        \cup {fs[rd].files["plan.json"] : rd \in {d \in DOMAIN fs : HasFile(fs[d], "plan.json")}}

RiskWeight(risk) == CASE risk = "low" -> 1 [] risk = "medium" -> 3 [] risk = "high" -> 6

\* C11: in every plan reached by plan(), refine_for_blocker, add_blocker_task,
\* reprioritize_tasks and update_task_statuses, every task has
\* risk_score = weight(risk) * estimate_points, with low = 1, medium = 3, high = 6.
C11_RiskScoreIsWeightTimesPoints ==
    \A p \in PlansOfState :
        \A i \in 1..Len(p.tasks) :
            p.tasks[i].risk_score = RiskWeight(p.tasks[i].risk) * p.tasks[i].estimate_points

C11_Witness ==
    /\ resp.n = 3
    /\ resp.op = "reprioritize_tasks"
    /\ resp.raised = ""
    /\ Ids(PlanTasks(resp.run_dir)) =
          <<TaskId("M", 7), TaskId("T", 1), TaskId("T", 2), TaskId("T", 3),
            TaskId("T", 4), TaskId("T", 5), TaskId("T", 6), TaskId("M", 8)>>
    /\ PlanTasks(resp.run_dir)[2].status = Some("done")
    /\ PlanTasks(resp.run_dir)[8].risk_score = 12

\* A task of before is in after under the same id, changed at most in priority
\* and status
KeepsTasks(before, after) ==
    \A i \in 1..Len(before) :
        \E j \in 1..Len(after) :
            /\ after[j].id = before[i].id
            /\ after[j] = [before[i] EXCEPT !.priority = after[j].priority,
                                            !.status = after[j].status]

DistinctIds(tasks) == \A i, j \in 1..Len(tasks) : i # j => tasks[i].id # tasks[j].id

\* C12: after any sequence of refine_for_blocker, add_blocker_task,
\* reprioritize_tasks and update_task_statuses on a plan of plan(), the task ids
\* are pairwise distinct, and an operation leaves every task it found under the
\* id it had: no id goes to a new or to another task.
C12_IdsDistinctAndStable ==
    /\ [](\A p \in PlansOfState : DistinctIds(p.tasks))
    /\ [][ /\ \A o \in Orchs :
                (orch[o].plan # None /\ orch'[o].plan # None) =>
                    KeepsTasks(Get(orch[o].plan).tasks, Get(orch'[o].plan).tasks)
           /\ \A rd \in DOMAIN fs \cap DOMAIN fs' :
                (HasFile(fs[rd], "plan.json") /\ HasFile(fs'[rd], "plan.json")) =>
                    KeepsTasks(PlanTasks(rd), PlanTasks(rd)') ]_vars

C12_Witness ==
    /\ resp.n = 2
    /\ resp.op = "add_blocker_task"
    /\ resp.raised = ""
    /\ Ids(PlanTasks(resp.run_dir)) =
          <<TaskId("M", 7), TaskId("T", 3), TaskId("T", 1), TaskId("T", 2),
            TaskId("T", 4), TaskId("T", 5), TaskId("T", 6), TaskId("M", 8)>>

----------------------------------------------------------------------------
(* Properties of diff_plans *)

\* The last request compared the plan.json files of two run directories
Compared ==
    /\ resp.op = "get_plan_diff"
    /\ resp.raised = ""
    /\ load_plan(resp.old_run) # None
    /\ load_plan(resp.new_run) # None

OldTasks == Get(load_plan(resp.old_run)).tasks
NewTasks == Get(load_plan(resp.new_run)).tasks

\* C13: for a plan p of this system (persisted by run(), then mutated or not),
\* diff_plans(p, p) has empty added, removed and modified lists and an
\* aggregate risk delta of 0.
C13_DiffOfPlanWithItself ==
    (Compared /\ resp.old_run = resp.new_run) =>
        /\ resp.result.added = <<>>
        /\ resp.result.removed = <<>>
        /\ resp.result.modified = <<>>
        /\ resp.result.aggregate_risk_delta = Some(0)

C13_Witness ==
    /\ Compared
    /\ resp.old_run = resp.new_run
    /\ Ids(OldTasks) =
          <<TaskId("T", 3), TaskId("T", 1), TaskId("T", 2), TaskId("T", 4),
            TaskId("T", 5), TaskId("T", 6), TaskId("M", 7)>>
    /\ resp.result.aggregate_risk_old = Some(57)

\* The fields of interest in which two tasks differ
Differing(o, n) == {f \in Range(TASK_FIELDS_OF_INTEREST) : o[f] # n[f]}

\* C14: added is exactly the tasks of new whose id is not in old, removed
\* exactly the tasks of old whose id is not in new, modified exactly one entry
\* per id of both plans that differs in a compared field, the entry giving the
\* old and new values of the differing fields only; if new is old plus one
\* task, added is that task and removed and modified are empty.
C14_DiffAddedRemovedModified ==
    Compared =>
        LET d      == resp.result
            oldIds == Range(Ids(OldTasks))
            newIds == Range(Ids(NewTasks))
            diffIds == {i \in oldIds \cap newIds :
                          \E o \in Range(OldTasks), n \in Range(NewTasks) :
                              o.id = i /\ n.id = i /\ Differing(o, n) # {}}
        IN  /\ Range(d.added) = {t \in Range(NewTasks) : t.id \notin oldIds}
            /\ Len(d.added) = Cardinality(newIds \ oldIds)
            /\ Range(d.removed) = {t \in Range(OldTasks) : t.id \notin newIds}
            /\ Len(d.removed) = Cardinality(oldIds \ newIds)
            /\ {d.modified[k].id : k \in 1..Len(d.modified)} = diffIds
            /\ Len(d.modified) = Cardinality(diffIds)
            /\ \A k \in 1..Len(d.modified) :
                  \E o \in Range(OldTasks), n \in Range(NewTasks) :
                      /\ o.id = d.modified[k].id
                      /\ n.id = d.modified[k].id
                      /\ DOMAIN d.modified[k].changes = Differing(o, n)
                      /\ \A f \in Differing(o, n) :
                            d.modified[k].changes[f] = [old |-> o[f], new |-> n[f]]
            /\ (Len(NewTasks) = Len(OldTasks) + 1
                    /\ SubSeq(NewTasks, 1, Len(OldTasks)) = OldTasks) =>
                  /\ d.added = <<NewTasks[Len(NewTasks)]>>
                  /\ d.removed = <<>>
                  /\ d.modified = <<>>

C14_Witness ==
    /\ Compared
    /\ Len(OldTasks) = 6
    /\ Len(NewTasks) = 7
    /\ NewTasks = Append(OldTasks, NewTasks[7])
    /\ resp.result.added = <<NewTasks[7]>>
    /\ resp.result.aggregate_risk_delta = Some(12)

\* Comparisons that report removed tasks and modified priorities are reached
C14_WitnessModified ==
    /\ Compared
    /\ Len(resp.result.removed) = 1
    /\ Len(resp.result.modified) = 3
    /\ resp.result.modified[1].id = TaskId("T", 2)
    /\ DOMAIN resp.result.modified[1].changes = {"priority"}

----------------------------------------------------------------------------
(* Properties of persist_run *)

\* The last call was a persist_run with retention
PersistedWithRetention == resp.op = "persist_run" /\ resp.max_runs # None

\* C15: persist_run with max_runs = n >= 1 on a project that holds c run
\* directories once the new run is written leaves exactly min(c, n) of them; it
\* removes none when c <= n.
C15_PruneLeavesMin ==
    PersistedWithRetention =>
        Cardinality(resp.left) = Min(Cardinality(resp.written), Get(resp.max_runs))

\* The place of the last creation of a run directory in the creation order
CreatedAt(order, rd) == CHOOSE i \in 1..Len(order) :
                            order[i] = rd /\ \A j \in (i + 1)..Len(order) : order[j] # rd

\* C16: whenever persist_run prunes a run directory, every run directory it
\* retains was created later than the pruned one, also when the persists
\* happen within one second.
C16_PruneRetainsNewest ==
    PersistedWithRetention =>
        \A gone \in resp.written \ resp.left :
            \A kept \in resp.left :
                CreatedAt(resp.created, kept) > CreatedAt(resp.created, gone)

\* C17: after k successful persist_run calls to a project whose project.json
\* was absent or had runs = 0, project.json has runs = k.
C17_RunsCounterCountsPersists ==
    (pers.call = None /\ pers.persisted # {}) =>
        /\ meta # None
        /\ Get(meta).runs = Cardinality(pers.persisted)

----------------------------------------------------------------------------
(* Properties of AuditLogger *)

\* A step in which log() wrote a line
Logged == logs'.n = logs.n + 1
Threshold == Get(logs.max_bytes)[2]
ThresholdSet == logs.max_bytes # None /\ IsIntText(Get(logs.max_bytes))
RotationFailed(lg) == lg.last.step \in {"getsize_failed", "replace_failed"}
AppendedOne(before, after) == Len(after) = Len(before) + 1 /\ IsPrefix(before, after)

\* C18: with an integer threshold, a log() call that leaves the primary file
\* strictly larger than the threshold (and whose size check and rename do not
\* fail) moves the file, the new line included, to the rotated file named by the
\* current second and leaves an empty primary file, to which later calls append;
\* the first such call yields exactly one rotated file.  A log() call that
\* leaves the size at or below the threshold, or any log() call with the
\* threshold unset, empty or not an integer, appends its line and changes no
\* rotated file; nothing but log() changes the files.
C18_RotationAboveThreshold ==
    [][ /\ Logged =>
            IF ThresholdSet /\ logs'.last.size > Threshold
            THEN RotationFailed(logs') \/
                 /\ logs'.last.step = "replaced"
                 /\ audit' = <<>>
                 /\ DOMAIN logs'.rotated = DOMAIN logs.rotated \cup {now}
                 /\ AppendedOne(audit, logs'.rotated[now])
                 /\ getsize(logs'.rotated[now]) = logs'.last.size
                 /\ \A ts \in DOMAIN logs.rotated \ {now} : logs'.rotated[ts] = logs.rotated[ts]
                 /\ logs.rotated = <<>> => Cardinality(DOMAIN logs'.rotated) = 1
            ELSE /\ logs'.rotated = logs.rotated
                 /\ AppendedOne(audit, audit')
                 /\ getsize(audit') = logs'.last.size
        /\ ~Logged => (audit' = audit /\ logs'.rotated = logs.rotated)
      ]_vars

\* One rotated file larger than the threshold, and a primary file that holds
\* only the entry logged after the rotation
C18_Witness ==
    /\ ThresholdSet
    /\ Cardinality(DOMAIN logs.rotated) = 1
    /\ \A ts \in DOMAIN logs.rotated : getsize(logs.rotated[ts]) > Threshold
    /\ Len(audit) = 1
    /\ audit[1].event = "RUN_COMPLETED"
    /\ logs.last.step = "small"

\* C19: a log() call whose rotation fails at the size check or at the rename
\* leaves its line appended to the primary file and no rotated file changed,
\* and raises nothing: no run() call ever raises, and a run() in progress after
\* a failed rotation goes on until it has returned its result.
C19_RotationFailureIsSwallowed ==
    /\ [][ (Logged /\ RotationFailed(logs')) =>
               /\ AppendedOne(audit, audit')
               /\ logs'.rotated = logs.rotated ]_vars
    /\ [](RaisedCalls = {})
    /\ (RotationFailed(logs) /\ orch[1].pc # "idle")
           ~> (orch[1].pc = "idle" /\ CurrentRun(1) \in ReturnedCalls)

\* A run() that returned although the rename failed at its RUN_COMPLETED line,
\* which is the last line of the primary file
C19_Witness ==
    /\ logs.last.step = "replace_failed"
    /\ orch[1].pc = "idle"
    /\ CurrentRun(1) \in ReturnedCalls
    /\ audit # <<>>
    /\ audit[Len(audit)].event = "RUN_COMPLETED"
    /\ getsize(audit) > Threshold

----------------------------------------------------------------------------
(* Properties of EventBus *)

\* The handlers emit called, given the handlers hs subscribed to its event:
\* the first ones of hs in the order of hs, each once; only the last call may
\* have raised, and the loop stops before the end of hs only if it did.
InSubscriptionOrder(called, hs) ==
    /\ Len(called) <= Len(hs)
    /\ \A i \in 1..Len(called) : called[i].handler = hs[i]
    /\ \A i \in 1..Len(called) - 1 : ~called[i].raised
    /\ Len(called) < Len(hs) => (called # <<>> /\ called[Len(called)].raised)

\* C20: every emit(e, payload) of a bus appends one record {event, timestamp,
\* payload} to the end of history and leaves the earlier records as they were,
\* and calls the handlers subscribed to e, and no others, once each in
\* subscription order; if a handler raises, the handlers after it are not
\* called and the exception reaches the caller of emit: the run() call raises.
\* Nothing else changes history.
C20_EmitInvokesHandlersInOrder ==
    [][ \A o \in Orchs :
          LET bus    == orch[o].bus
              after  == orch'[o].bus
              k      == Len(after.history)
              record == after.history[k]
              called == after.invoked[k]
          IN  \/ after.history = bus.history /\ after.invoked = bus.invoked
              \/ /\ AppendedOne(bus.history, after.history)
                 /\ AppendedOne(bus.invoked, after.invoked)
                 /\ DOMAIN record = {"event", "timestamp", "payload"}
                 /\ record.timestamp = now
                 /\ after.subs = bus.subs
                 /\ InSubscriptionOrder(called, bus.subs[record.event])
                 /\ (called # <<>> /\ called[Len(called)].raised)
                        => orch'[o].calls[Len(orch'[o].calls)].outcome = "raised"
      ]_vars

\* A bus with a further handler subscribed to RELEASE_DRAFTED only: the emit of
\* PLAN_CREATED called the audit handler alone, the emit of RELEASE_DRAFTED the
\* audit handler and then the further one
C20_Witness ==
    LET bus == orch[1].bus
    IN  /\ bus.subs["RELEASE_DRAFTED"] = <<"audit", "ext">>
        /\ bus.subs["PLAN_CREATED"] = <<"audit">>
        /\ Len(bus.history) = 2
        /\ bus.history[1].event = "PLAN_CREATED"
        /\ bus.history[2].event = "RELEASE_DRAFTED"
        /\ bus.invoked[1] = <<[handler |-> "audit", raised |-> FALSE]>>
        /\ bus.invoked[2] = <<[handler |-> "audit", raised |-> FALSE],
                              [handler |-> "ext", raised |-> FALSE]>>

----------------------------------------------------------------------------
(* Properties of the plan mutations, continued *)

\* The status a status map asks for a task id: the stripped value of the last
\* item with a non-empty value whose stripped key is the id
Requested(status_map, id) ==
    LET hits == {i \in 1..Len(status_map) :
                    /\ status_map[i].k.id = Some(id)
                    /\ status_map[i].v # ""}
    IN  IF hits = {} THEN None
        ELSE Some(StripText(status_map[CHOOSE i \in hits : \A j \in hits : j <= i].v))

\* The tasks whose status a status map changes
Restated(tasks, status_map) ==
    {i \in 1..Len(tasks) : /\ Requested(status_map, tasks[i].id) # None
                           /\ tasks[i].status # Requested(status_map, tasks[i].id)}

StatusUpdated == resp.op = "update_task_statuses" /\ resp.raised = ""

\* C24: update_task_statuses sets the status of the tasks the map names with a
\* status other than the one they have, and changes nothing else of them; if
\* there is such a task plan.json is written with the new updated_at, if there
\* is none (unknown ids, statuses already current, empty map) no file of the
\* run directory changes, updated_at included.  The same call repeated right
\* after changes nothing.
C24_StatusUpdateWritesOnlyOnChange ==
    [][ (resp'.n = resp.n + 1 /\ StatusUpdated') =>
            LET rd     == resp'.run_dir
                sm     == resp'.status_map
                before == Get(load_plan(rd))
                hit    == Restated(before.tasks, sm)
            IN  /\ resp'.changed = (hit # {})
                /\ hit = {} => fs' = fs
                /\ hit # {} =>
                      /\ fs' = WritePlan(rd, fs'[rd].files["plan.json"])
                      /\ fs'[rd].files["plan.json"] =
                            [before EXCEPT
                                !.updated_at = Some(now),
                                !.tasks = [i \in 1..Len(before.tasks) |->
                                             IF i \in hit
                                             THEN [before.tasks[i] EXCEPT
                                                     !.status = Requested(sm, before.tasks[i].id)]
                                             ELSE before.tasks[i]]]
                /\ (StatusUpdated /\ resp.run_dir = rd /\ resp.status_map = sm) => fs' = fs
      ]_vars

\* A status update that named a task already done and an unknown id right after
\* the update that set the task to done: nothing changed the second time
C24_Witness ==
    /\ StatusUpdated
    /\ resp.n >= 2
    /\ ~resp.changed
    /\ resp.status_map = << [k |-> Key("T", 1, TRUE), v |-> " done"] >>
    /\ \E i \in 1..Len(PlanTasks(resp.run_dir)) :
          /\ PlanTasks(resp.run_dir)[i].id = TaskId("T", 1)
          /\ PlanTasks(resp.run_dir)[i].status = Some("done")
    /\ fs[resp.run_dir].files["plan.json"].updated_at # None

\* C26: a refine_for_blocker(plan, b) on a plan of n tasks leaves a plan of
\* n + 1 tasks whose first n tasks are the tasks it found, in all fields and in
\* order, and whose last task has id M<n+1>, type mitigation, risk high,
\* estimate_points 2, risk_score 12 and priority n + 1; b is the last blocker
\* and the earlier blockers are as before.  It holds for each blocker of a run.
C26_RefineAppendsOneTask ==
    [][ \A o \in Orchs :
          (orch[o].pc = "planned" /\ orch[o].pending # <<>> /\ orch'[o].plan # None) =>
              LET before == Get(orch[o].plan)
                  after  == Get(orch'[o].plan)
                  n      == Len(before.tasks)
                  b      == Head(orch[o].pending)
                  added  == after.tasks[n + 1]
              IN  /\ Len(after.tasks) = n + 1
                  /\ SubSeq(after.tasks, 1, n) = before.tasks
                  /\ added.id = TaskId("M", n + 1)
                  /\ added.type = "mitigation"
                  /\ added.risk = "high"
                  /\ added.estimate_points = 2
                  /\ added.risk_score = 12
                  /\ added.priority = n + 1
                  /\ after.blockers = Append(before.blockers, b)
      ]_vars

\* A run with a single blocker and two listed ones after its third refinement
C26_Witness ==
    /\ orch[1].plan # None
    /\ orch[1].pending = <<>>
    /\ Len(Get(orch[1].plan).blockers) = 3
    /\ Ids(Get(orch[1].plan).tasks) =
          <<TaskId("T", 1), TaskId("T", 2), TaskId("T", 3), TaskId("T", 4), TaskId("T", 5),
            TaskId("T", 6), TaskId("M", 7), TaskId("M", 8), TaskId("M", 9)>>

\* C27: a reprioritize_tasks that returns, for any ordered_ids, leaves the
\* tasks it found, each once and under its id, with every field but priority
\* as it was, and leaves every field of the plan but tasks and updated_at
\* (blockers and aggregate_risk_score among them) and every other file as
\* they were.
C27_ReprioritizeChangesPriorityOnly ==
    [][ (resp'.n = resp.n + 1 /\ Reprioritized') =>
            LET rd     == resp'.run_dir
                before == Get(load_plan(rd))
                after  == fs'[rd].files["plan.json"]
            IN  /\ fs' = WritePlan(rd, after)
                /\ after = [before EXCEPT !.tasks = after.tasks, !.updated_at = after.updated_at]
                /\ Len(after.tasks) = Len(before.tasks)
                /\ Range(Ids(after.tasks)) = Range(Ids(before.tasks))
                /\ \A i \in 1..Len(before.tasks) :
                      \E j \in 1..Len(after.tasks) :
                          after.tasks[j] = [before.tasks[i] EXCEPT
                                                !.priority = after.tasks[j].priority]
      ]_vars

\* A reprioritization of a plan with a blocker, a mitigation task and a task
\* done: the mitigation task moved to the front, the status kept
C27_Witness ==
    /\ Reprioritized
    /\ resp.ordered_ids = <<TaskId("M", 7)>>
    /\ resp.before[1].id = TaskId("T", 1)
    /\ resp.before[1].status = Some("done")
    /\ PlanTasks(resp.run_dir)[1].id = TaskId("M", 7)
    /\ PlanTasks(resp.run_dir)[2].status = Some("done")
    /\ fs[resp.run_dir].files["plan.json"].blockers # <<>>

Priorities(tasks) == SeqMap(LAMBDA t : t.priority, tasks)

\* C28: in the plan a run() is building, in every returned plan and in every
\* plan.json after any sequence of add_blocker_task, reprioritize_tasks and
\* update_task_statuses, the priorities of the n tasks are pairwise distinct
\* and are the numbers 1..n.
C28_PrioritiesAreOneToN ==
    \A p \in PlansOfState :
        /\ Range(Priorities(p.tasks)) = 1..Len(p.tasks)
        /\ \A i, j \in 1..Len(p.tasks) : i # j => p.tasks[i].priority # p.tasks[j].priority

\* A mitigation task added after a reprioritization that moved the earlier
\* mitigation task to the front: it has priority 8, which no task held
C28_Witness ==
    /\ resp.op = "add_blocker_task"
    /\ resp.raised = ""
    /\ resp.n >= 2
    /\ Ids(PlanTasks(resp.run_dir)) =
          <<TaskId("M", 7), TaskId("T", 1), TaskId("T", 2), TaskId("T", 3), TaskId("T", 4),
            TaskId("T", 5), TaskId("T", 6), TaskId("M", 8)>>
    /\ Priorities(PlanTasks(resp.run_dir)) = <<1, 2, 3, 4, 5, 6, 7, 8>>

\* The plan.json files of a state
StoredPlans ==
    {fs[rd].files["plan.json"] : rd \in {d \in DOMAIN fs : HasFile(fs[d], "plan.json")}}

\* Two plans with the same tasks (ids, fields, order) and aggregate_risk_score
SameTasks(p, q) == p.tasks = q.tasks /\ p.aggregate_risk_score = q.aggregate_risk_score

\* C29: a plan.json to which add_blocker_task added blockers has the tasks and
\* the aggregate_risk_score of the plan a run() of the same initiative returns
\* (and persist_run writes) for the same blockers in the same order, whether
\* the blockers came through run(), through add_blocker_task or through both;
\* the plans differ in generated_at and updated_at only.
C29_AddBlockerTaskEqualsRefine ==
    /\ \A p \in StoredPlans : \A oj \in ReturnedCalls :
          (p.initiative = Result(oj).plan.initiative /\ p.blockers = Result(oj).plan.blockers)
              => /\ SameTasks(p, Result(oj).plan)
                 /\ p = [Result(oj).plan EXCEPT !.generated_at = p.generated_at,
                                               !.updated_at = p.updated_at]
    /\ \A p, q \in StoredPlans :
          (p.initiative = q.initiative /\ p.blockers = q.blockers) => SameTasks(p, q)

\* The plan of a run without blockers, persisted, after add_blocker_task for
\* "b" and then "", and the plan persisted later by a run with blockers
\* ["b", ""]: the one has updated_at and the other has not
C29_Witness ==
    /\ orch[1].calls # <<>>
    /\ orch[1].calls[1].blockers = None
    /\ <<1, 1>> \in pers.persisted
    /\ <<1, 2>> \in pers.persisted
    /\ resp.n = 2
    /\ \E p, q \in StoredPlans :
          /\ p.updated_at # None
          /\ q.updated_at = None
          /\ q.generated_at > p.generated_at
          /\ p.blockers = << <<"b">>, <<>> >>
          /\ q.blockers = p.blockers
          /\ Len(p.tasks) = 8
          /\ p.tasks = q.tasks

----------------------------------------------------------------------------
(* Properties of the callers of run() *)

\* The blocker strings a request carries: the single blocker, then the list
Supplied(op, request) ==
    IF op = "create_run"
    THEN (IF request.blocker = None THEN <<>> ELSE <<Get(request.blocker)>>)
            \o (IF request.blockers = None THEN <<>> ELSE Get(request.blockers))
    ELSE request.blocker

MitigationTasks(tasks) == SelectSeq(tasks, LAMBDA t : t.type = "mitigation")

\* C30: when the run() of a request has returned, its plan has one mitigation
\* task and the audit file one BLOCKER_ADDED line per blocker string of the
\* request, the single blocker first and then the list, no string dropped and
\* none processed twice.
C30_CallersPassEachBlockerOnce ==
    (Requesting /\ <<resp.o, 1>> \in ReturnedCalls) =>
        LET supplied == Supplied(resp.op, resp.request)
            plan1    == Result(<<resp.o, 1>>).plan
            lines    == SelectSeq(audit, LAMBDA l : l.event = "BLOCKER_ADDED" /\ l.by = <<resp.o, 1>>)
        IN  /\ plan1.blockers = supplied
            /\ Len(MitigationTasks(plan1.tasks)) = Len(supplied)
            /\ SeqMap(LAMBDA l : l.blocker, lines) = supplied

----------------------------------------------------------------------------
(* Properties of persist_run and of the projects *)

\* A step that is a whole persist_run call
Persisted == resp'.n = resp.n + 1 /\ resp'.op = "persist_run"

\* The run directories of the project of a name, after the step
DirsAfter(project) == ProjectAt(outputs', projects_slug(project)).dirs

\* The files every persisted result of run() has
ResultFiles ==
    {"plan.json", "release.json", "metrics.json", "aggregate_risk.txt",
     "stakeholder_summary.txt", "manifest.json"}

\* A raw payload with at least one entry
NonEmptyRaw(raw) == raw # None /\ DOMAIN Get(raw) # {}

\* C21: after persist_run of a result of run() the new run directory holds
\* plan.json, release.json, metrics.json, aggregate_risk.txt,
\* stakeholder_summary.txt and manifest.json; blockers.txt exactly when the
\* plan has a blocker; autogen/ with one <key>_raw.txt per entry exactly when
\* a non-empty raw payload was passed; the manifest records the initiative
\* and the project given.
C21_PersistedArtifacts ==
    [][Persisted =>
         /\ resp'.run_dir \in DOMAIN DirsAfter(resp'.project)
         /\ LET d    == DirsAfter(resp'.project)[resp'.run_dir]
                call == Call(resp'.of)
                p    == Get(call.result).plan
            IN  /\ ResultFiles \subseteq DOMAIN d.files
                /\ ("blockers.txt" \in DOMAIN d.files) <=> (p.blockers # <<>>)
                /\ IF NonEmptyRaw(resp'.autogen_raw)
                   THEN /\ d.autogen # None
                        /\ DOMAIN Get(d.autogen)
                             = {<<k, "_raw.txt">> : k \in DOMAIN Get(resp'.autogen_raw)}
                   ELSE d.autogen = None
                /\ d.files["manifest.json"].initiative = call.initiative
                /\ d.files["manifest.json"].project = resp'.project]_vars

\* The run directories and the runs counter of the project directory of a slug
RunsOf(root, slug) ==
    [dirs |-> DOMAIN ProjectAt(root, slug).dirs,
     runs |-> IF ProjectAt(root, slug).meta = None THEN None
              ELSE Some(Get(ProjectAt(root, slug).meta).runs)]

\* C22: persist_run for a project creates its run directory under the
\* directory of that project only, and leaves the run directories and the
\* runs counter of every project with another slug as they were.
C22_RunsAreIsolatedPerProject ==
    [][Persisted =>
         /\ resp'.run_dir \in resp'.written
         /\ \A slug \in (DOMAIN outputs \cup DOMAIN outputs') \ {projects_slug(resp'.project)} :
               /\ RunsOf(outputs', slug) = RunsOf(outputs, slug)
               /\ ProjectAt(outputs', slug) = ProjectAt(outputs, slug)]_vars

\* A persist_run under the project "a" after which the project "b", created
\* before, holds a run directory of its own and its counter
C22_Witness ==
    /\ resp.op = "persist_run"
    /\ projects_slug(resp.project) = <<"a">>
    /\ resp.run_dir \in DOMAIN ProjectAt(outputs, <<"a">>).dirs
    /\ <<"b">> \in DOMAIN outputs
    /\ DOMAIN outputs[<<"b">>].dirs # {}
    /\ outputs[<<"b">>].meta # None

\* A step that is a whole POST /projects request
Posted == resp'.n = resp.n + 1 /\ resp'.op = "post_project"

\* C23: create_project for a name under whose slug a project.json exists
\* fails with a validation error and changes nothing: the project.json and
\* the run directories are as before, also when the name differs from the
\* name the project was created with.
C23_ExistingSlugIsRefused ==
    [][Posted /\ ProjectAt(outputs, projects_slug(resp'.payload.name)).meta # None =>
         /\ resp'.status = 400
         /\ resp'.meta = None
         /\ outputs' = outputs]_vars

\* A refused request with the name "A" for the project created as "a" with a
\* description, which holds a run directory and has counted a run
C23_Witness ==
    /\ resp.op = "post_project"
    /\ resp.status = 400
    /\ resp.payload.name = <<"A">>
    /\ <<"a">> \in DOMAIN outputs
    /\ outputs[<<"a">>].meta # None
    /\ Get(outputs[<<"a">>].meta).name = <<"a">>
    /\ "description" \in DOMAIN Get(outputs[<<"a">>].meta)
    /\ Get(outputs[<<"a">>].meta).runs > 0
    /\ DOMAIN outputs[<<"a">>].dirs # {}

\* The excess of a persist_run with max_runs = n that finds c > n run
\* directories after its write: the first c - n names in sorted order
Excess ==
    LET names == SortedNames(resp'.written)
        n     == Get(resp'.max_runs)
    IN  IF Len(names) > n THEN Range(Take(names, Len(names) - n)) ELSE {}

\* C25: when the removal of one excess run directory fails during pruning,
\* persist_run still returns the run directory, and every other excess run
\* directory is removed in the same call.
C25_PruneFailureIsSwallowed ==
    [][Persisted /\ resp'.max_runs # None /\ resp'.fail # None =>
         (Get(resp'.fail).dir \in Excess =>
            /\ resp'.returned = Some(resp'.run_dir)
            /\ \A d \in Excess \ {Get(resp'.fail).dir} : d \notin DOMAIN DirsAfter(resp'.project))]_vars

\* A persist_run with max_runs = 1 that found three run directories: the
\* removal of the first failed, the directory is still there, and the second
\* is gone
C25_Witness ==
    /\ resp.op = "persist_run"
    /\ resp.max_runs = Some(1)
    /\ resp.fail # None
    /\ Cardinality(resp.written) = 3
    /\ Get(resp.fail).dir = SortedNames(resp.written)[1]
    /\ Get(resp.fail).dir \in DOMAIN ProjectAt(outputs, projects_slug(resp.project)).dirs
    /\ SortedNames(resp.written)[2] \notin DOMAIN ProjectAt(outputs, projects_slug(resp.project)).dirs
    /\ resp.returned = Some(resp.run_dir)

\* The run directories of the project of a name, before the step
DirsBefore(project) == ProjectAt(outputs, projects_slug(project)).dirs

\* C31: a persist_run without pruning creates a run directory of its own: it
\* does not write into a run directory an earlier persist created, and the
\* project holds one run directory more than before (k after k persists),
\* also for two persists of one initiative within one second.
C31_EveryPersistCreatesItsDirectory ==
    [][Persisted /\ resp'.max_runs = None =>
         /\ resp'.run_dir \notin DOMAIN DirsBefore(resp'.project)
         /\ Cardinality(DOMAIN DirsAfter(resp'.project))
              = Cardinality(DOMAIN DirsBefore(resp'.project)) + 1]_vars

\* The names of the files of a directory in sorted() order
SortedFilesOf(d) == SelectSeq(SortedFileNames, LAMBDA n : n \in DOMAIN d.files)

\* C32: when persist_run returns, the files array of manifest.json is the
\* sorted list of the names of all files present in the run directory,
\* manifest.json included.
C32_ManifestListsEveryFile ==
    [][Persisted /\ resp'.run_dir \in DOMAIN DirsAfter(resp'.project) =>
         LET d == DirsAfter(resp'.project)[resp'.run_dir]
         IN  /\ "manifest.json" \in DOMAIN d.files
             /\ d.files["manifest.json"].files = SortedFilesOf(d)]_vars

\* C39: for every max_runs >= 1 and every history of persists, the run
\* directory persist_run has just written is not among those it prunes: the
\* path returned is a run directory that exists and holds manifest.json.
C39_PruneKeepsTheNewDirectory ==
    [][/\ Persisted /\ resp'.returned # None
       /\ resp'.max_runs # None /\ Get(resp'.max_runs) >= 1
       =>
         /\ Get(resp'.returned) \in DOMAIN DirsAfter(resp'.project)
         /\ "manifest.json" \in DOMAIN DirsAfter(resp'.project)[Get(resp'.returned)].files]_vars

----------------------------------------------------------------------------
(* Properties of AuditLogger, continued *)

\* The number of lines in the rotated files of the names in T
RECURSIVE RotatedLines(_)
RotatedLines(T) ==
    IF T = {} THEN 0
    ELSE LET ts == CHOOSE x \in T : TRUE
         IN  Len(logs.rotated[ts]) + RotatedLines(T \ {ts})

\* The number of lines equal to l in a file
CopiesIn(file, l) == Cardinality({i \in 1..Len(file) : file[i] = l})

\* The number of lines equal to l in the rotated files of the names in T
RECURSIVE RotatedCopies(_, _)
RotatedCopies(T, l) ==
    IF T = {} THEN 0
    ELSE LET ts == CHOOSE x \in T : TRUE
         IN  CopiesIn(logs.rotated[ts], l) + RotatedCopies(T \ {ts}, l)

\* The lines of the audit files that carry the line l
Copies(l) == CopiesIn(audit, l) + RotatedCopies(DOMAIN logs.rotated, l)

\* C38: the audit trail is append-only across rotation: every entry logged
\* is in the primary file or in a rotated file, exactly once, also when two
\* rotations happen within one second.
C38_RotationKeepsEveryEntry ==
    /\ Len(audit) + RotatedLines(DOMAIN logs.rotated) = logs.n
    /\ \A i \in 1..Len(audit) : Copies(audit[i]) = 1
    /\ \A ts \in DOMAIN logs.rotated :
          \A i \in 1..Len(logs.rotated[ts]) : Copies(logs.rotated[ts][i]) = 1

\* The run() calls started
StartedCalls == {oj \in Calls : IsCall(oj)}

\* C37: with run() calls side by side on one audit file without rotation,
\* the file is an interleaving of the entries of the calls: the entries of
\* each call are in the file once each and in the call's own order
\* PLAN_CREATED, BLOCKER_ADDED*, RELEASE_DRAFTED, STAKEHOLDER_SUMMARY,
\* RUN_COMPLETED (all of them once the call returned), and every line of the
\* file is an entry of a call.
C37_AuditInterleavesRuns ==
    /\ \A i \in 1..Len(audit) : audit[i].by \in StartedCalls
    /\ Len(audit) = logs.n
    /\ \A oj \in StartedCalls :
          LET g     == Given(Call(oj))
              order == EventOrder(Len(g)) \o <<"RUN_COMPLETED">>
          IN  /\ IsPrefix(EventsOf(oj), order)
              /\ \A i \in 1..Len(BlockerLinesOf(oj)) : BlockerLinesOf(oj)[i].blocker = g[i]
              /\ oj \in ReturnedCalls => EventsOf(oj) = order

\* Two calls returned, and the file holds a line of the second instance
\* between two lines of the first and a line of the first between two of
\* the second
C37_Witness ==
    /\ {<<1, 1>>, <<2, 1>>} \subseteq ReturnedCalls
    /\ \E i, j, k, l \in 1..Len(audit) :
          /\ i < j /\ j < k /\ k < l
          /\ audit[i].by = <<1, 1>> /\ audit[j].by = <<2, 1>>
          /\ audit[k].by = <<1, 1>> /\ audit[l].by = <<2, 1>>

----------------------------------------------------------------------------
(* Properties of calls side by side *)

\* Thread u saved last, after thread t, and both had loaded the same plan.json
\* of one run directory: they loaded before either of them saved
SavedOver(t, u) ==
    /\ threads[t].pc = "saved" /\ threads[u].pc = "saved"
    /\ threads[t].run_dir = threads[u].run_dir
    /\ threads[t].plan = threads[u].plan
    /\ threads[t].n < threads[u].n
    /\ resp.n = threads[u].n

\* C36: when two add_blocker_task calls on one run directory both load
\* plan.json before either saves, the later save overwrites the earlier one:
\* the plan.json left holds the plan loaded plus the blocker and the
\* mitigation task of the later save only.
C36_LastWriteWins ==
    \A t, u \in Threads :
        SavedOver(t, u) =>
            LET base == threads[u].plan
                p    == fs[threads[u].run_dir].files["plan.json"]
            IN  /\ p.blockers = Append(base.blockers, threads[u].blocker)
                /\ p.tasks = Append(base.tasks,
                                    mitigation_task(Len(base.tasks) + 1, threads[u].blocker))

\* Two calls with the blockers "a" and "b" interleaved, and plan.json holds
\* "b" and not the "a" of the earlier save
C36_Witness ==
    \E t, u \in Threads :
        /\ SavedOver(t, u)
        /\ threads[t].blocker = <<"a">>
        /\ threads[u].blocker = <<"b">>
        /\ LET p == fs[threads[u].run_dir].files["plan.json"]
           IN  /\ p.blockers[Len(p.blockers)] = <<"b">>
               /\ Len(p.blockers) = Len(threads[u].plan.blockers) + 1
               /\ Len(p.tasks) = Len(threads[u].plan.tasks) + 1

\* Thread t ends its persist_run in this step
Finishes(t) == threads[t].pc = "created" /\ threads'[t].pc = "idle"

\* C40: with two persist_run calls with max_runs side by side on one project
\* directory, the pruning of one call does not remove the run directory the
\* other call has created and is still writing into.
C40_PruneSparesDirectoryInProgress ==
    [][\A t, u \in Threads :
         /\ Finishes(t) /\ threads[t].max_runs # None
         /\ t # u /\ threads[u].pc = "created" /\ threads[u].max_runs # None
         /\ projects_slug(threads[u].project) = projects_slug(threads[t].project)
         /\ threads[u].run_dir \in DOMAIN DirsBefore(threads[u].project)
         => threads[u].run_dir \in DOMAIN DirsAfter(threads[u].project)]_vars

----------------------------------------------------------------------------
(* Properties of the chat endpoint *)

\* A value a request leaves out or leaves empty
Missing(x) == x = None \/ x = Some(<<>>)

\* The requests post_chat rejects: an empty message without mode, an unknown
\* run, add_blocker without blocker text, reprioritize without an order list,
\* a mutation mode on a run without plan.json
Rejected(rd, payload) ==
    \/ Strip(payload.message) = <<>> /\ payload.mode = None
    \/ rd \notin DOMAIN fs
    \/ payload.mode = Some("add_blocker") /\ Missing(payload.blocker)
    \/ payload.mode = Some("reprioritize") /\ Missing(payload.order)
    \/ payload.mode \in {Some("add_blocker"), Some("reprioritize")} /\ load_plan(rd) = None

\* C33: a post_chat request that is rejected returns an error and leaves
\* plan.json and conversation.json of the run as they were: no mutation is
\* applied, no user or agent message is appended.
C33_ChatFailsClosed ==
    [][\A rd \in RunDirs, payload \in ChatPosts :
          PostChat(rd, payload) /\ Rejected(rd, payload) =>
             /\ resp'.raised = "HTTPException"
             /\ resp'.status_code \in {400, 404, 409}
             /\ fs' = fs]_vars

\* A rejected add_blocker post on a run directory that holds a plan.json and
\* a conversation.json
C33_Witness ==
    /\ resp.op = "post_chat"
    /\ resp.raised = "HTTPException"
    /\ resp.mode = Some("add_blocker")
    /\ load_plan(resp.run_dir) # None
    /\ load_conversation(fs[resp.run_dir]) # <<>>

----------------------------------------------------------------------------
(* Properties of the plan mutations on a missing or unparsable plan.json *)

\* A step that is a call of one of the three plan mutations
Mutated ==
    /\ resp'.n = resp.n + 1
    /\ resp'.op \in {"add_blocker_task", "reprioritize_tasks", "update_task_statuses"}

\* C34: on a plan.json that exists and does not parse, add_blocker_task,
\* reprioritize_tasks and update_task_statuses fail with an error that is not
\* the not-found error of a missing plan.json, and leave the file as it was.
C34_CorruptPlanFailsLoudly ==
    [][Mutated =>
         /\ load_plan(resp'.run_dir) = Some(Corrupt) =>
               /\ resp'.raised \notin {"", "FileNotFoundError"}
               /\ fs' = fs
         /\ load_plan(resp'.run_dir) = None => resp'.raised = "FileNotFoundError"]_vars

\* update_task_statuses has failed on the unparsable plan.json, which is
\* still there
C34_Witness ==
    /\ resp.op = "update_task_statuses"
    /\ resp.raised = "JSONDecodeError"
    /\ load_plan(resp.run_dir) = Some(Corrupt)

----------------------------------------------------------------------------
(* Properties of diff_plans on absent and empty plans *)

\* The last call returned a diff
Diffed == resp.op \in {"diff_plans", "get_plan_diff"} /\ resp.raised = ""

\* The plans the last call compared
DiffedOld == IF resp.op = "diff_plans" THEN resp.old ELSE ReadablePlan(resp.old_run)
DiffedNew == IF resp.op = "diff_plans" THEN resp.new ELSE ReadablePlan(resp.new_run)

\* The plan carries an aggregate_risk_score
Scored(p) == p # None /\ "aggregate_risk_score" \in DOMAIN Get(p)

\* added, removed and modified of the last diff are as for absent plans
AbsentPlansDiffed ==
    /\ Absent(DiffedOld) /\ Absent(DiffedNew) =>
          resp.result.added = <<>> /\ resp.result.removed = <<>> /\ resp.result.modified = <<>>
    /\ Absent(DiffedOld) /\ ~Absent(DiffedNew) =>
          /\ resp.result.added = Field(DiffedNew, "tasks", <<>>)
          /\ resp.result.removed = <<>> /\ resp.result.modified = <<>>
    /\ ~Absent(DiffedOld) /\ Absent(DiffedNew) =>
          /\ resp.result.removed = Field(DiffedOld, "tasks", <<>>)
          /\ resp.result.added = <<>> /\ resp.result.modified = <<>>

\* the last diff reports the risk delta: new - old of two scores, else null
DeltaReported ==
    /\ "aggregate_risk_delta" \in DOMAIN resp.result
    /\ resp.result.aggregate_risk_delta =
          IF Scored(DiffedOld) /\ Scored(DiffedNew)
          THEN Some(Get(DiffedNew).aggregate_risk_score - Get(DiffedOld).aggregate_risk_score)
          ELSE None

\* C35: diff_plans does not fail on absent or empty plans: with both absent
\* or empty, added, removed and modified are empty; with one absent or empty,
\* every task of the other is added (old absent) or removed (new absent) and
\* modified is empty; the aggregate risk delta reported is new - old where
\* both plans carry a score and null in every other case.
C35_DiffOfAbsentPlans == Diffed => AbsentPlansDiffed /\ DeltaReported

\* The delta is reported as the claim says wherever one plan is there
DeltaReportedWithAPlan ==
    Diffed /\ ~(Absent(DiffedOld) /\ Absent(DiffedNew)) => DeltaReported

\* A diff is returned and added, removed and modified are as the claim says
AbsentPlansDiffedAlways == Diffed => AbsentPlansDiffed

====
